---- MODULE Spec2Model ----
(***************************************************************************)
(* A model of conrod's widget graph (src/src/graph/mod.rs): the nodes and  *)
(* edges kept in a petgraph::Graph, the index_map from widget ids to node  *)
(* indices, pre_update_cache / add_placeholder, and the depth order built  *)
(* by update_depth_order / visit_by_depth.                                 *)
(*                                                                          *)
(* Conventions.                                                             *)
(*  - An Option<T> is a set: None is {} and Some(x) is {x}.                 *)
(*  - A NodeIndex is a position in `nodes`; the root, the first node       *)
(*    added (with_capacity), is position 1.                                *)
(*  - petgraph keeps, per node, a list of its edges with the newest edge   *)
(*    first; `edges` is the sequence of the live edges in the order they   *)
(*    were added, so walking a node's edges is walking `edges` backwards.  *)
(*  - A panic stops the program: `panic` records its message, the state    *)
(*    keeps what the call had written before it, and no action is enabled. *)
(***************************************************************************)
EXTENDS Integers, Sequences, FiniteSets, TLC

\* ---------------------------------------------------------------- bounds
\* Number of public widget ids the application uses.
NumIds == 3
\* Number of add_placeholder calls (internal widgets) in a run.
MaxPlaceholders == 1
\* Number of add_placeholder and pre_update_cache calls in a run.
MaxCalls == 3
\* The most calls of element and element_if_changed in a run.
MaxFrames == 3
MaxPushes == 4
MaxLayerCalls == 4

Ids == 1..NumIds
MaxNodes == 1 + NumIds + MaxPlaceholders
NodeIndices == 1..MaxNodes

\* Widget kind tags; "EMPTY" is the tag pre_update_cache lets any kind replace.
Kinds == {"Button", "Slider", "EMPTY"}
\* Render depths and "last clicked" times offered to pre_update_cache.
Depths == {1, 2}
Times == {1, 2}

None == {}
Some(x) == {x}
Unwrap(o) == CHOOSE x \in o : TRUE

VARIABLES
    nodes,           \* Graph.graph: the node weights, by NodeIndex
    edges,           \* Graph.graph: the live edges, oldest first
    index_map,       \* Graph.index_map: widget id -> Option<NodeIndex>
    depth_order,     \* Graph.depth_order
    floating_deque,  \* Graph.floating_deque
    stderr,          \* the cycle reports set_edge has written, as <<a, b>>
    panic,           \* None, or Some(message) once a call has panicked
    calls,           \* the calls made so far that write to the cache
    frames,          \* the element and element_if_changed calls made so far
    placeholders,    \* the NodeIndex values add_placeholder has returned
    last_call,       \* the operation that produced this state, with its arguments
    events,          \* EventHandlerImpl.events
    mouse_buttons,   \* EventHandlerImpl.mouse_buttons
    mouse_position,  \* EventHandlerImpl.mouse_position
    dialer_state     \* the State the Ui keeps for a NumberDialer

handler == <<events, mouse_buttons, mouse_position>>

vars == <<nodes, edges, index_map, depth_order, floating_deque, stderr, panic,
          calls, frames, placeholders, last_call, handler, dialer_state>>

\* ------------------------------------------------------------ node weights
RootNode == [tag |-> "Root"]
PlaceholderNode == [tag |-> "Placeholder"]
WidgetNode(container) == [tag |-> "Widget", container |-> container]

IsWidget(n) == n.tag = "Widget"

\* widget::Index: a public widget::Id or the NodeIndex of an internal widget.
PublicIdx(id) == <<"Id", id>>
InternalIdx(n) == <<"Node", n>>

\* GraphIndex::to_node_index: an id is looked up in the map, a NodeIndex is itself.
to_node_index(idx, map) ==
    IF idx[1] = "Id" THEN map[idx[2]] ELSE Some(idx[2])

\* ------------------------------------------------------- petgraph queries
\* An edge a -> b of variant `edge` ("Child" or "RelativePosition").
EdgeRec(a, b, edge) == [a |-> a, b |-> b, edge |-> edge]

RemoveAt(s, i) == SubSeq(s, 1, i - 1) \o SubSeq(s, i + 1, Len(s))

RECURSIVE walk_edges_directed(_, _, _, _)
\* graph.walk_edges_directed(idx, dir): the positions in E of the edges into
\* idx (dir = "Incoming") or out of idx (dir = "Outgoing"), newest first; i is
\* the position the walk has reached.
walk_edges_directed(E, idx, dir, i) ==
    IF i = 0 THEN <<>>
    ELSE IF (IF dir = "Incoming" THEN E[i].b ELSE E[i].a) = idx
         THEN <<i>> \o walk_edges_directed(E, idx, dir, i - 1)
         ELSE walk_edges_directed(E, idx, dir, i - 1)

incoming_edges(E, idx) == walk_edges_directed(E, idx, "Incoming", Len(E))

\* graph.neighbors_directed(idx, Outgoing): the targets of every edge leaving
\* idx, of either variant, newest edge first.
neighbors_outgoing(E, idx) ==
    LET pos == walk_edges_directed(E, idx, "Outgoing", Len(E))
    IN [i \in 1..Len(pos) |-> E[pos[i]].b]

RECURSIVE Toposortable(_, _)
\* Kahn's algorithm on the nodes N: strip the nodes without an incoming edge
\* from N until none is left (acyclic) or none can be stripped (a cycle).
Toposortable(N, E) ==
    IF N = {} THEN TRUE
    ELSE LET free == {n \in N : \A i \in 1..Len(E) : ~(E[i].b = n /\ E[i].a \in N)}
         IN IF free = {} THEN FALSE ELSE Toposortable(N \ free, E)

\* pg::algo::is_cyclic_directed: some directed cycle exists, over all edges.
is_cyclic_directed(N, E) == ~Toposortable(N, E)

\* The first incoming edge of idx of the given variant, as Some(position in E).
FirstIncoming(E, idx, edge) ==
    LET inc == incoming_edges(E, idx)
        hits == {k \in 1..Len(inc) : E[inc[k]].edge = edge}
    IN IF hits = {} THEN None
       ELSE Some(inc[CHOOSE k \in hits : \A k2 \in hits : k <= k2])

maybe_incoming_relative_position_edge(E, idx) ==
    LET f == FirstIncoming(E, idx, "RelativePosition")
    IN IF f = None THEN None ELSE Some(E[Unwrap(f)].a)

maybe_incoming_child_edge(E, idx) ==
    LET f == FirstIncoming(E, idx, "Child")
    IN IF f = None THEN None ELSE Some(E[Unwrap(f)].a)

\* set_edge without the cycle check: the new edge always stays.
set_edge_unchecked(G, a, b, edge) ==
    LET E == G.edges
        f == FirstIncoming(E, b, edge)
        already_set == f # None /\ E[Unwrap(f)].a = a
        E1 == IF f # None /\ ~already_set THEN RemoveAt(E, Unwrap(f)) ELSE E
    IN IF already_set THEN G
       ELSE [G EXCEPT !.edges = Append(E1, EdgeRec(a, b, edge))]

\* set_edge without the removal of the edge that is already there.
set_edge_keeping(G, a, b, edge) ==
    LET E == G.edges
        f == FirstIncoming(E, b, edge)
        already_set == f # None /\ E[Unwrap(f)].a = a
        E2 == Append(E, EdgeRec(a, b, edge))
    IN IF already_set THEN G
       ELSE IF is_cyclic_directed(1..Len(G.nodes), E2)
       THEN [G EXCEPT !.stderr = Append(@, <<a, b>>)]
       ELSE [G EXCEPT !.edges = E2]

\* set_edge: make a -> b the only incoming edge of its variant on b.  The
\* first incoming edge of that variant is kept when it comes from a and
\* removed otherwise; then the new edge is added, and removed again when the
\* graph has become cyclic, with a line on stderr naming a and b.  G is the
\* graph record (nodes, edges, index_map, stderr).
set_edge(G, a, b, edge) ==
    LET E == G.edges
        f == FirstIncoming(E, b, edge)
        already_set == f # None /\ E[Unwrap(f)].a = a
        E1 == IF f # None /\ ~already_set THEN RemoveAt(E, Unwrap(f)) ELSE E
        E2 == Append(E1, EdgeRec(a, b, edge))
    IN IF already_set THEN G
       ELSE IF is_cyclic_directed(1..Len(G.nodes), E2)
       THEN [G EXCEPT !.edges = E1, !.stderr = Append(@, <<a, b>>)]
       ELSE [G EXCEPT !.edges = E2]

\* ------------------------------------------------------------ Graph methods
\* The graph proper, as the record the methods below transform:
\*   nodes (node weights by NodeIndex), edges, index_map, and stderr, the
\*   lines set_edge has written (each the pair of nodes it names).
root == 1

NodeSet(N) == 1..Len(N)

\* ---------------------------------------------------------------- scalars
\* The f64 lengths and offsets, as exact fractions <<n, d>> in lowest terms
\* with d > 0: the values offered are halves and small integers, on which
\* the f64 operations below are exact.
RECURSIVE GCD(_, _)
GCD(a, b) == IF b = 0 THEN a ELSE GCD(b, a % b)

Abs(n) == IF n < 0 THEN 0 - n ELSE n

Scalar(n, d) ==
    LET g == GCD(Abs(n), d) IN <<n \div g, d \div g>>

Add(x, y) == Scalar(x[1] * y[2] + y[1] * x[2], x[2] * y[2])
Sub(x, y) == Scalar(x[1] * y[2] - y[1] * x[2], x[2] * y[2])
Mul(x, y) == Scalar(x[1] * y[1], x[2] * y[2])
\* x / y for y > 0.
Div(x, y) == Scalar(x[1] * y[2], x[2] * y[1])

Zero == Scalar(0, 1)

\* widget::KidArea: the dimensions [width, height] of the area of the kids.
KidAreaOf(w, h) == [dim |-> <<w, h>>]
KidArea == KidAreaOf(Scalar(100, 1), Scalar(100, 1))

\* widget::PreUpdateCache, the argument of pre_update_cache (positions and
\* dimensions, which no edge or ordering decision reads, are left out).
PreUpdateCacheArg(kind, idx, maybe_parent_idx, maybe_positioned_relatively_idx, depth, kid_area, maybe_floating, maybe_scrolling) ==
    [kind |-> kind, idx |-> idx, maybe_parent_idx |-> maybe_parent_idx,
     maybe_positioned_relatively_idx |-> maybe_positioned_relatively_idx,
     depth |-> depth, kid_area |-> kid_area, maybe_floating |-> maybe_floating,
     maybe_scrolling |-> maybe_scrolling]

\* The closure new_container of pre_update_cache.
new_container(w) ==
    [maybe_state |-> None, kind |-> w.kind, depth |-> w.depth,
     kid_area |-> w.kid_area, maybe_floating |-> w.maybe_floating, maybe_scrolling |-> w.maybe_scrolling,
     maybe_element |-> None, element_has_changed |-> FALSE,
     is_updated |-> TRUE, was_previously_updated |-> FALSE]

\* set_parent_for_widget without the lookup of the parent id: a parent named
\* by id always gets a fresh placeholder.
set_parent_for_widget_unresolved(G, idx, maybe_parent_idx) ==
    LET node_idx == Unwrap(to_node_index(idx, G.index_map))
        known == IF maybe_parent_idx = None THEN Some(root)
                 ELSE IF Unwrap(maybe_parent_idx)[1] = "Id" THEN None
                 ELSE to_node_index(Unwrap(maybe_parent_idx), G.index_map)
        parent_node_idx == IF known # None THEN Unwrap(known) ELSE Len(G.nodes) + 1
        nodes1 == IF known # None THEN G.nodes ELSE Append(G.nodes, PlaceholderNode)
        map1 == IF known # None THEN G.index_map
                ELSE [G.index_map EXCEPT ![Unwrap(maybe_parent_idx)[2]] =
                          Some(parent_node_idx)]
    IN set_edge([G EXCEPT !.nodes = nodes1, !.index_map = map1],
                parent_node_idx, node_idx, "Child")

\* set_parent_for_widget that takes no notice of the parent it is given.
set_parent_for_widget_under_root(G, idx, maybe_parent_idx) ==
    set_edge(G, root, Unwrap(to_node_index(idx, G.index_map)), "Child")

\* Graph::set_parent_for_widget: resolve the parent (the root when none is
\* given, a fresh registered Placeholder when the parent id has no node yet)
\* and set the Child edge parent -> idx.
set_parent_for_widget(G, idx, maybe_parent_idx) ==
    LET node_idx == Unwrap(to_node_index(idx, G.index_map))
        known == IF maybe_parent_idx = None THEN Some(root)
                 ELSE to_node_index(Unwrap(maybe_parent_idx), G.index_map)
        parent_node_idx == IF known # None THEN Unwrap(known) ELSE Len(G.nodes) + 1
        nodes1 == IF known # None THEN G.nodes ELSE Append(G.nodes, PlaceholderNode)
        map1 == IF known # None THEN G.index_map
                ELSE [G.index_map EXCEPT ![Unwrap(maybe_parent_idx)[2]] =
                          Some(parent_node_idx)]
    IN set_edge([G EXCEPT !.nodes = nodes1, !.index_map = map1],
                parent_node_idx, node_idx, "Child")

\* Graph::add_widget: a new Widget node, registered under the id, with its parent.
add_widget(G, container, id, maybe_parent_idx) ==
    LET node_idx == Len(G.nodes) + 1
        G1 == [G EXCEPT !.nodes = Append(G.nodes, WidgetNode(container)),
                        !.index_map = [G.index_map EXCEPT ![id] = Some(node_idx)]]
    IN set_parent_for_widget(G1, InternalIdx(node_idx), maybe_parent_idx)

\* A remove_incoming_relative_position_edge that removes nothing.
keep_incoming_relative_position_edge(G, idx) == G

\* Graph::remove_incoming_relative_position_edge.
remove_incoming_relative_position_edge(G, idx) ==
    LET node_idx == Unwrap(to_node_index(idx, G.index_map))
        f == FirstIncoming(G.edges, node_idx, "RelativePosition")
    IN IF f = None THEN G ELSE [G EXCEPT !.edges = RemoveAt(G.edges, Unwrap(f))]

\* Graph::set_relative_position_edge, once both ends are known to have a node.
set_relative_position_edge(G, a, b) ==
    LET a_idx == Unwrap(to_node_index(a, G.index_map))
        b_idx == Unwrap(to_node_index(b, G.index_map))
    IN set_edge(G, a_idx, b_idx, "RelativePosition")

\* The kind check with "EMPTY" looked for in the new kind, not the cached one.
KindMismatchOfNewKind(container, kind) == container.kind # kind /\ kind # "EMPTY"

\* The kind check of pre_update_cache on an existing container.
KindMismatch(container, kind) == container.kind # kind /\ container.kind # "EMPTY"

\* A first half that gives an existing Widget a new container.
cache_node_anew(G, w) ==
    LET found == to_node_index(w.idx, G.index_map)
    IN IF found # None
       THEN LET node_idx == Unwrap(found)
                G1 == set_parent_for_widget(G, w.idx, w.maybe_parent_idx)
                node == G1.nodes[node_idx]
            IN IF node.tag = "Widget" /\ KindMismatch(node.container, w.kind)
               THEN [g |-> G1, panic |-> Some("different kind")]
               ELSE [g |-> [G1 EXCEPT !.nodes[node_idx] = WidgetNode(new_container(w))],
                     panic |-> None]
       ELSE [g |-> add_widget(G, new_container(w), w.idx[2], w.maybe_parent_idx),
             panic |-> None]

\* The first half of pre_update_cache: the node, its parent and its container.
\* The result carries the panic raised, if any, with the graph as it was then.
cache_node(G, w) ==
    LET found == to_node_index(w.idx, G.index_map)
    IN IF found # None
       THEN LET node_idx == Unwrap(found)
                G1 == set_parent_for_widget(G, w.idx, w.maybe_parent_idx)
                node == G1.nodes[node_idx]
            IN IF node.tag = "Placeholder"
               THEN [g |-> [G1 EXCEPT !.nodes[node_idx] = WidgetNode(new_container(w))],
                     panic |-> None]
               ELSE IF KindMismatch(node.container, w.kind)
               THEN [g |-> G1, panic |-> Some("different kind")]
               ELSE [g |-> [G1 EXCEPT !.nodes[node_idx] = WidgetNode(
                              [node.container EXCEPT
                                  !.kind = w.kind, !.depth = w.depth,
                                  !.kid_area = w.kid_area,
                                  !.maybe_floating = w.maybe_floating,
                                  !.maybe_scrolling = w.maybe_scrolling,
                                  !.is_updated = TRUE])],
                     panic |-> None]
       ELSE [g |-> add_widget(G, new_container(w), w.idx[2], w.maybe_parent_idx),
             panic |-> None]

\* Graph::pre_update_cache.
pre_update_cache(G, w) ==
    LET r == cache_node(G, w)
        rel == w.maybe_positioned_relatively_idx
    IN IF r.panic # None THEN r
       ELSE IF rel = None
       THEN [g |-> remove_incoming_relative_position_edge(r.g, w.idx), panic |-> None]
       ELSE IF to_node_index(Unwrap(rel), r.g.index_map) = None
       THEN [g |-> r.g, panic |-> Some("No matching NodeIndex")]
       ELSE [g |-> set_relative_position_edge(r.g, Unwrap(rel), w.idx), panic |-> None]

\* -------------------------------------------------------------- depth order
\* Visitable::Widget(idx) and Visitable::Scrollbar(idx).
VisitWidget(idx) == <<"Widget", idx>>
VisitScrollbar(idx) == <<"Scrollbar", idx>>

\* slice::sort_by on a short slice: a stable insertion sort.  Each element in
\* turn moves left past the elements it compares Less than, the comparison
\* being compare(moving element, element to its left).  `less` is the
\* comparator, as the set of the pairs <<a, b>> with compare(a, b) = Less.
insertion_sort(v, less) ==
    LET insert(p, x) ==
            LET stop == {k \in 1..Len(p) : <<x, p[k]>> \notin less}
                m == IF stop = {} THEN 0
                     ELSE CHOOSE k \in stop : \A k2 \in stop : k2 <= k
            IN SubSeq(p, 1, m) \o <<x>> \o SubSeq(p, m + 1, Len(p))
        sorted[i \in 0..Len(v)] ==
            IF i = 0 THEN <<>> ELSE insert(sorted[i - 1], v[i])
    IN sorted[Len(v)]

\* The comparator of child_sorter.sort_by, as "compare(a, b) is Less": a
\* captured `a` is Greater; two widgets compare as b.depth against a.depth;
\* anything else is Equal.
child_less(N, maybe_captured_mouse, maybe_captured_keyboard, a, b) ==
    IF Some(a) = maybe_captured_mouse \/ Some(a) = maybe_captured_keyboard THEN FALSE
    ELSE IF IsWidget(N[a]) /\ IsWidget(N[b])
    THEN N[b].container.depth < N[a].container.depth
    ELSE FALSE

\* A comparator that puts the floating widget clicked last first.
floating_less_clicked_last_first(N, a, b) ==
    IF IsWidget(N[a]) /\ IsWidget(N[b])
    THEN Unwrap(N[a].container.maybe_floating) > Unwrap(N[b].container.maybe_floating)
    ELSE FALSE

\* The comparator of floating_deque.sort_by: time_last_clicked, ascending.
floating_less(N, a, b) ==
    IF IsWidget(N[a]) /\ IsWidget(N[b])
    THEN Unwrap(N[a].container.maybe_floating) < Unwrap(N[b].container.maybe_floating)
    ELSE FALSE

\* A first match that lets every widget pass, updated or not.
VisitedUpdatedOrNot(N, idx) == IsWidget(N[idx]) \/ N[idx].tag = "Root"

\* Whether visit_by_depth goes past its first match at idx: an updated widget
\* or the root.
Visited(N, idx) ==
    \/ IsWidget(N[idx]) /\ N[idx].container.is_updated
    \/ N[idx].tag = "Root"

\* The nodes visit_by_depth takes as the children of idx, sorted.
child_sorter(G, idx, maybe_captured_mouse, maybe_captured_keyboard) ==
    LET kids == neighbors_outgoing(G.edges, idx)
        all == {kids[i] : i \in 1..Len(kids)}
    IN insertion_sort(kids,
           {p \in all \X all : child_less(G.nodes, maybe_captured_mouse,
                                          maybe_captured_keyboard, p[1], p[2])})

RECURSIVE visit_by_depth(_, _, _, _, _)
RECURSIVE visit_children(_, _, _, _, _, _)

\* visit_by_depth; st is [depth_order, floating_deque], the two buffers it
\* appends to.
visit_by_depth(idx, maybe_captured_mouse, maybe_captured_keyboard, G, st) ==
    LET node == G.nodes[idx]
        st1 == IF IsWidget(node)
               THEN [st EXCEPT !.depth_order = Append(@, VisitWidget(idx))]
               ELSE st
        st2 == visit_children(
                   child_sorter(G, idx, maybe_captured_mouse, maybe_captured_keyboard),
                   1, maybe_captured_mouse, maybe_captured_keyboard, G, st1)
    IN IF ~Visited(G.nodes, idx) THEN st
       ELSE IF IsWidget(node) /\ node.container.maybe_scrolling # None
       THEN [st2 EXCEPT !.depth_order = Append(@, VisitScrollbar(idx))]
       ELSE st2

\* The loop of visit_by_depth over the sorted children, from position i on.
visit_children(cs, i, maybe_captured_mouse, maybe_captured_keyboard, G, st) ==
    IF i > Len(cs) THEN st
    ELSE LET child_idx == cs[i]
             is_floating == IsWidget(G.nodes[child_idx])
                            /\ G.nodes[child_idx].container.maybe_floating # None
             st1 == IF is_floating
                    THEN [st EXCEPT !.floating_deque = Append(@, child_idx)]
                    ELSE visit_by_depth(child_idx, maybe_captured_mouse,
                                        maybe_captured_keyboard, G, st)
         IN visit_children(cs, i + 1, maybe_captured_mouse,
                           maybe_captured_keyboard, G, st1)

\* A closing loop that stops after the first floating widget.
visit_floating_head_only(maybe_captured_mouse, maybe_captured_keyboard, G, st) ==
    IF st.floating_deque = <<>> THEN st
    ELSE visit_by_depth(Head(st.floating_deque), maybe_captured_mouse,
                        maybe_captured_keyboard, G,
                        [st EXCEPT !.floating_deque = Tail(@)])

RECURSIVE visit_floating(_, _, _, _)
\* The closing loop of update_depth_order: take the head of the deque, visit it.
visit_floating(maybe_captured_mouse, maybe_captured_keyboard, G, st) ==
    IF st.floating_deque = <<>> THEN st
    ELSE visit_floating(maybe_captured_mouse, maybe_captured_keyboard, G,
             visit_by_depth(Head(st.floating_deque), maybe_captured_mouse,
                            maybe_captured_keyboard, G,
                            [st EXCEPT !.floating_deque = Tail(@)]))

\* The buffers after the visit from the root and the sort of the deque.
main_pass(maybe_captured_mouse, maybe_captured_keyboard, G) ==
    LET st0 == visit_by_depth(root, maybe_captured_mouse, maybe_captured_keyboard, G,
                              [depth_order |-> <<>>, floating_deque |-> <<>>])
        all == {st0.floating_deque[i] : i \in 1..Len(st0.floating_deque)}
    IN [st0 EXCEPT !.floating_deque =
           insertion_sort(@, {p \in all \X all : floating_less(G.nodes, p[1], p[2])})]

\* update_depth_order: both buffers as it leaves them.
update_depth_order(maybe_captured_mouse, maybe_captured_keyboard, G) ==
    visit_floating(maybe_captured_mouse, maybe_captured_keyboard, G,
                   main_pass(maybe_captured_mouse, maybe_captured_keyboard, G))

\* ------------------------------------------------------------ scrolling
\* widget::scroll::Bar and widget::scroll::State, as far as scroll_offset
\* reads them.
ScrollBar(offset, max_offset, total_length) ==
    [offset |-> offset, max_offset |-> max_offset, total_length |-> total_length]
ScrollState(maybe_vertical, maybe_horizontal) ==
    [maybe_vertical |-> maybe_vertical, maybe_horizontal |-> maybe_horizontal]

\* A step that takes every container for one that scrolls its whole height.
scroll_step_of_any_container(container, offset) ==
    <<offset[1], Add(offset[2], container.kid_area.dim[2])>>

\* A step that moves the kids by the whole length of the bars.
scroll_step_by_total_length(container, offset) ==
    IF container.maybe_scrolling = None THEN offset
    ELSE LET scrolling == Unwrap(container.maybe_scrolling)
             v == scrolling.maybe_vertical
             h == scrolling.maybe_horizontal
         IN <<IF h = None THEN offset[1]
              ELSE Sub(offset[1], Mul(Div(Unwrap(h).offset, Unwrap(h).max_offset),
                                      Unwrap(h).total_length)),
              IF v = None THEN offset[2]
              ELSE Add(offset[2], Mul(Div(Unwrap(v).offset, Unwrap(v).max_offset),
                                      Unwrap(v).total_length))>>

\* A step that takes the vertical offset from y as it takes the horizontal
\* one from x.
scroll_step_decreasing_y(container, offset) ==
    IF container.maybe_scrolling = None THEN offset
    ELSE LET scrolling == Unwrap(container.maybe_scrolling)
             v == scrolling.maybe_vertical
             h == scrolling.maybe_horizontal
         IN <<IF h = None THEN offset[1]
              ELSE Sub(offset[1], Mul(Div(Unwrap(h).offset, Unwrap(h).max_offset),
                                      Sub(Unwrap(h).total_length,
                                          container.kid_area.dim[1]))),
              IF v = None THEN offset[2]
              ELSE Sub(offset[2], Mul(Div(Unwrap(v).offset, Unwrap(v).max_offset),
                                      Sub(Unwrap(v).total_length,
                                          container.kid_area.dim[2])))>>

\* scroll_offset at one parent: the offset [x, y] with the parent's scroll
\* offsets applied, if the parent is scrollable.
scroll_step(container, offset) ==
    IF container.maybe_scrolling = None THEN offset
    ELSE LET scrolling == Unwrap(container.maybe_scrolling)
             y == IF scrolling.maybe_vertical = None THEN offset[2]
                  ELSE LET bar == Unwrap(scrolling.maybe_vertical)
                           offset_frac == Div(bar.offset, bar.max_offset)
                           visible_height == container.kid_area.dim[2]
                           y_offset == Mul(offset_frac,
                                           Sub(bar.total_length, visible_height))
                       IN Add(offset[2], y_offset)
             x == IF scrolling.maybe_horizontal = None THEN offset[1]
                  ELSE LET bar == Unwrap(scrolling.maybe_horizontal)
                           offset_frac == Div(bar.offset, bar.max_offset)
                           visible_width == container.kid_area.dim[1]
                           x_offset == Mul(offset_frac,
                                           Sub(bar.total_length, visible_width))
                       IN Sub(offset[1], x_offset)
         IN <<x, y>>

\* An inner loop that never finds the parent.
relative_position_edge_traversal_breaking(G, current_node, parent_idx) == FALSE

RECURSIVE relative_position_edge_traversal(_, _, _)
\* The inner loop of scroll_offset: TRUE when it returns the offset, FALSE
\* when it breaks.
relative_position_edge_traversal(G, current_node, parent_idx) ==
    LET rel == maybe_incoming_relative_position_edge(G.edges, current_node)
    IN IF rel = None THEN FALSE
       ELSE IF maybe_incoming_child_edge(G.edges, Unwrap(rel)) = Some(parent_idx)
       THEN TRUE
       ELSE relative_position_edge_traversal(G, Unwrap(rel), parent_idx)

RECURSIVE child_edge_traversal(_, _, _)
\* The outer loop of scroll_offset, from node idx with the offset so far.
child_edge_traversal(G, idx, offset) ==
    LET parent == maybe_incoming_child_edge(G.edges, idx)
    IN IF parent = None THEN offset
       ELSE IF relative_position_edge_traversal(G, idx, Unwrap(parent)) THEN offset
       ELSE child_edge_traversal(G, Unwrap(parent),
                IF IsWidget(G.nodes[Unwrap(parent)])
                THEN scroll_step(G.nodes[Unwrap(parent)].container, offset)
                ELSE offset)

\* Graph::scroll_offset.
scroll_offset(G, idx) ==
    LET found == to_node_index(idx, G.index_map)
    IN IF found = None THEN <<Zero, Zero>>
       ELSE child_edge_traversal(G, Unwrap(found), <<Zero, Zero>>)

RECURSIVE relative_position_edge_traversal_ends(_, _, _, _)
\* The inner loop of scroll_offset leaves (by return or by break) within the
\* given number of passes.
relative_position_edge_traversal_ends(G, current_node, parent_idx, passes) ==
    IF passes = 0 THEN FALSE
    ELSE LET rel == maybe_incoming_relative_position_edge(G.edges, current_node)
         IN IF rel = None THEN TRUE
            ELSE IF maybe_incoming_child_edge(G.edges, Unwrap(rel)) = Some(parent_idx)
            THEN TRUE
            ELSE relative_position_edge_traversal_ends(G, Unwrap(rel), parent_idx,
                                                       passes - 1)

RECURSIVE child_edge_traversal_ends(_, _, _)
\* The outer loop of scroll_offset returns within the given number of
\* passes, the inner loop ending in each of them.
child_edge_traversal_ends(G, idx, passes) ==
    IF passes = 0 THEN FALSE
    ELSE LET parent == maybe_incoming_child_edge(G.edges, idx)
         IN IF parent = None THEN TRUE
            ELSE /\ relative_position_edge_traversal_ends(G, idx, Unwrap(parent),
                                                          Len(G.nodes) + 1)
                 /\ \/ relative_position_edge_traversal(G, idx, Unwrap(parent))
                    \/ child_edge_traversal_ends(G, Unwrap(parent), passes - 1)

\* Graph::scroll_offset returns: its loops end within one pass per node.
scroll_offset_returns(G, idx) ==
    \A found \in to_node_index(idx, G.index_map) :
        child_edge_traversal_ends(G, found, Len(G.nodes) + 1)

\* ------------------------------------------------------------- picking
\* GraphIndex::from_idx for widget::Index: the id registered for the node,
\* the NodeIndex itself when it has none.
from_idx(node_idx, map) ==
    IF \E id \in DOMAIN map : map[id] = Some(node_idx)
    THEN PublicIdx(CHOOSE id \in DOMAIN map : map[id] = Some(node_idx))
    ELSE InternalIdx(node_idx)

\* The closure of pick_widget's find: the entry is hit by the point.
\* over_rect is the set of the nodes for which utils::is_over_rect answers
\* true at the point, over_handle of those for which scroll::is_over does.
is_hit(G, visitable, over_rect, over_handle) ==
    LET idx == visitable[2]
    IN IF visitable[1] = "Widget"
       THEN IsWidget(G.nodes[idx]) /\ idx \in over_rect
       ELSE /\ IsWidget(G.nodes[idx])
            /\ G.nodes[idx].container.maybe_scrolling # None
            /\ idx \in over_handle

\* A search of the depth order from its first entry.
pick_widget_first_hit(G, order, over_rect, over_handle) ==
    LET hits == {i \in 1..Len(order) : is_hit(G, order[i], over_rect, over_handle)}
    IN IF hits = {} THEN None
       ELSE Some(from_idx(order[CHOOSE i \in hits : \A j \in hits : i <= j][2],
                          G.index_map))

RECURSIVE rev_find(_, _, _, _, _)
\* depth_order.iter().rev().find(..): the position of the first entry hit,
\* going from position i down to the first.
rev_find(G, order, i, over_rect, over_handle) ==
    IF i = 0 THEN None
    ELSE IF is_hit(G, order[i], over_rect, over_handle) THEN Some(i)
    ELSE rev_find(G, order, i - 1, over_rect, over_handle)

\* Graph::pick_widget for the depth order `order` and a point.
pick_widget(G, order, over_rect, over_handle) ==
    LET found == rev_find(G, order, Len(order), over_rect, over_handle)
    IN IF found = None THEN None
       ELSE Some(from_idx(order[Unwrap(found)][2], G.index_map))

\* ------------------------------------------------------------ primitives
\* Range and Rect of the position module, on whole coordinates.
Range(start, end) == [start |-> start, end |-> end]
Rect(x, y) == [x |-> x, y |-> y]

Max(a, b) == IF a >= b THEN a ELSE b
Min(a, b) == IF a <= b THEN a ELSE b

\* Range::overlap: the range two ranges share, if they share one.
range_overlap(a, b) ==
    LET start == Max(a.start, b.start)
        end == Min(a.end, b.end)
    IN IF end - start >= 0 THEN Some(Range(start, end)) ELSE None

\* Rect::overlap.
overlap(a, b) ==
    LET x == range_overlap(a.x, b.x)
        y == range_overlap(a.y, b.y)
    IN IF x = None \/ y = None THEN None ELSE Some(Rect(Unwrap(x), Unwrap(y)))

\* Rect::from_xy_dim for a centre and even dimensions.
from_xy_dim(xy, dim) ==
    Rect(Range(xy[1] - dim[1] \div 2, xy[1] + dim[1] \div 2),
         Range(xy[2] - dim[2] \div 2, xy[2] + dim[2] \div 2))

\* Rect::pad: the rectangle with each edge moved inwards.
pad(r, frame) ==
    Rect(Range(r.x.start + frame, r.x.end - frame),
         Range(r.y.start + frame, r.y.end - frame))

\* What Primitives::draw reads of a widget's Container: its rectangle, the
\* rectangle of its kid area, whether it crops its kids, and its kind.
Look(rect, kid_area_rect, crop_kids, kind) ==
    [rect |-> rect, kid_area |-> [rect |-> kid_area_rect],
     crop_kids |-> crop_kids, kind |-> kind]

RECURSIVE does_recursive_depth_edge_exist(_, _, _)
\* Graph::does_recursive_depth_edge_exist: parent is above child.
does_recursive_depth_edge_exist(G, parent, child) ==
    LET above == maybe_incoming_child_edge(G.edges, child)
    IN IF above = None THEN FALSE
       ELSE IF Unwrap(above) = parent THEN TRUE
       ELSE does_recursive_depth_edge_exist(G, parent, Unwrap(above))

RECURSIVE cropped_area(_, _, _, _)
\* The loop of graph::algo::cropped_area_of_widget over the parents of idx:
\* what is left of overlapping_rect inside the kid areas of the cropping
\* widgets above, None when nothing is.
cropped_area(G, containers, idx, overlapping_rect) ==
    LET above == maybe_incoming_child_edge(G.edges, idx)
    IN IF above = None THEN Some(overlapping_rect)
       ELSE LET parent == Unwrap(above)
            IN IF IsWidget(G.nodes[parent]) /\ containers[parent].crop_kids
               THEN LET o == overlap(overlapping_rect,
                                     containers[parent].kid_area.rect)
                    IN IF o = None THEN None
                       ELSE cropped_area(G, containers, parent, Unwrap(o))
               ELSE cropped_area(G, containers, parent, overlapping_rect)

\* graph::algo::cropped_area_of_widget.
cropped_area_of_widget(G, containers, idx) ==
    IF IsWidget(G.nodes[idx])
    THEN cropped_area(G, containers, idx, containers[idx].rect)
    ELSE None

\* The frame of a FramedRectangle in the theme.
frame == 1

Primitive(idx, kind, scizzor, rect) ==
    [idx |-> idx, kind |-> kind, scizzor |-> scizzor, rect |-> rect]

\* The match on container.kind of Primitives::draw: the primitives of the
\* widget at idx, in the order they are handed to draw_primitive.
primitives_of(idx, container, scizzor) ==
    IF container.kind = "Rectangle"
    THEN <<Primitive(idx, "Rectangle", scizzor, container.rect)>>
    ELSE IF container.kind = "FramedRectangle"
    THEN <<Primitive(idx, "Rectangle", scizzor, container.rect),
           Primitive(idx, "Rectangle", scizzor, pad(container.rect, frame))>>
    ELSE <<>>

RECURSIVE pop_crop_stack(_, _, _)
\* The inner loop of Primitives::draw: the crop stack without the entries on
\* top of it that are not of a widget above node_index.
pop_crop_stack(G, crop_stack, node_index) ==
    IF crop_stack = <<>> THEN crop_stack
    ELSE IF does_recursive_depth_edge_exist(G, crop_stack[Len(crop_stack)][1],
                                            node_index)
    THEN crop_stack
    ELSE pop_crop_stack(G, SubSeq(crop_stack, 1, Len(crop_stack) - 1), node_index)

\* The scizzor of a widget that crops its kids: its own kid area.
scizzor_of_own_kid_area(container, crop_stack, window_rect) ==
    container.kid_area.rect

\* The scizzor of a widget: the top of the crop stack, or the window.
scizzor_of(container, crop_stack, window_rect) ==
    IF crop_stack = <<>> THEN window_rect
    ELSE crop_stack[Len(crop_stack)][2]

\* A test of visibility that looks at the window alone.
is_visible_in_window(G, containers, node_index, window_rect) ==
    overlap(containers[node_index].rect, window_rect) # None

\* is_visible of Primitives::draw.
is_visible(G, containers, node_index, window_rect) ==
    /\ overlap(containers[node_index].rect, window_rect) # None
    /\ cropped_area_of_widget(G, containers, node_index) # None

RECURSIVE draw_loop(_, _, _, _, _, _, _)
\* The loop of Primitives::draw from position i of the depth order, with
\* the crop stack and the primitives drawn so far.
draw_loop(G, containers, order, i, crop_stack, window_rect, drawn_primitives) ==
    IF i > Len(order) THEN drawn_primitives
    ELSE LET node_index == order[i]
         IN IF ~IsWidget(G.nodes[node_index])
            THEN draw_loop(G, containers, order, i + 1, crop_stack, window_rect,
                           drawn_primitives)
            ELSE LET container == containers[node_index]
                     popped == pop_crop_stack(G, crop_stack, node_index)
                     scizzor == scizzor_of(container, popped, window_rect)
                     scizzor_rect ==
                         LET o == overlap(container.kid_area.rect, scizzor)
                         IN IF o = None THEN from_xy_dim(<<0, 0>>, <<0, 0>>)
                            ELSE Unwrap(o)
                     pushed == IF container.crop_kids
                               THEN Append(popped, <<node_index, scizzor_rect>>)
                               ELSE popped
                 IN draw_loop(G, containers, order, i + 1, pushed, window_rect,
                        IF is_visible(G, containers, node_index, window_rect)
                        THEN drawn_primitives
                                 \o primitives_of(node_index, container, scizzor)
                        ELSE drawn_primitives)

\* Primitives::new and Primitives::draw: the primitives handed to
\* draw_primitive, for the widget entries of the depth order.
draw(G, containers, order, window_dim) ==
    draw_loop(G, containers, order, 1, <<>>, from_xy_dim(<<0, 0>>, window_dim),
              <<>>)

\* ------------------------------------------------ elements of the frames
\* A lookup that hands out whatever the node at idx holds.
get_node(G, idx) ==
    LET found == to_node_index(idx, G.index_map)
    IN IF found = None THEN None ELSE Some(G.nodes[Unwrap(found)])

\* Graph::get_widget (and get_widget_mut): the container of the Widget at
\* idx, None when idx has no node or its node is a Placeholder.
get_widget(G, idx) ==
    LET found == to_node_index(idx, G.index_map)
    IN IF found = None THEN None
       ELSE IF IsWidget(G.nodes[Unwrap(found)])
       THEN Some(G.nodes[Unwrap(found)].container)
       ELSE None

\* Index::index (and IndexMut::index_mut) of Graph: the container that
\* get_widget finds, a panic when it finds none.
index(G, idx) ==
    LET found == get_widget(G, idx)
    IN IF found = None
       THEN [result |-> None, panic |-> Some("No Widget matching the given ID")]
       ELSE [result |-> found, panic |-> None]

\* widget::PostUpdateCache, the argument of post_update_cache.
PostUpdateCacheArg(idx, state, maybe_element) ==
    [idx |-> idx, state |-> state, maybe_element |-> maybe_element]

\* A post_update_cache that marks the Element as changed on every call.
post_update_cache_marking_always(G, widget) ==
    IF get_widget(G, widget.idx) = None THEN G
    ELSE LET n == Unwrap(to_node_index(widget.idx, G.index_map))
             container == G.nodes[n].container
         IN [G EXCEPT !.nodes[n].container =
                [container EXCEPT
                    !.maybe_element = IF widget.maybe_element # None
                                      THEN widget.maybe_element ELSE @,
                    !.element_has_changed = TRUE,
                    !.maybe_state = Some(widget.state)]]

\* Graph::post_update_cache.
post_update_cache(G, widget) ==
    IF get_widget(G, widget.idx) = None THEN G
    ELSE LET n == Unwrap(to_node_index(widget.idx, G.index_map))
             container == G.nodes[n].container
             c1 == IF widget.maybe_element # None
                   THEN [container EXCEPT !.maybe_element = widget.maybe_element,
                                          !.element_has_changed = TRUE]
                   ELSE container
         IN [G EXCEPT !.nodes[n].container =
                [c1 EXCEPT !.maybe_state = Some(widget.state)]]

\* The Elements Graph::element builds besides the widgets' own: a scroll
\* group cropped to the kid area of idx, and the scrollbar of idx.
CropElement(idx, scroll_group) == [crop |-> idx, layers |-> scroll_group]
ScrollbarElement(idx) == [scrollbar |-> idx]

RECURSIVE collect_elements(_, _, _)
\* The loop of Graph::element over depth_order, from position i on; acc is
\* [nodes, elements, scroll_stack].
collect_elements(order, i, acc) ==
    IF i > Len(order) THEN acc
    ELSE
    LET idx == order[i][2]
        node == acc.nodes[idx]
        c == node.container
        top == Len(acc.scroll_stack)
        pushed == IF c.maybe_element = None THEN acc
                  ELSE IF top > 0
                  THEN [acc EXCEPT !.scroll_stack[top] =
                           Append(acc.scroll_stack[top], Unwrap(c.maybe_element))]
                  ELSE [acc EXCEPT !.elements = Append(@, Unwrap(c.maybe_element))]
        grouped == IF c.maybe_scrolling # None
                   THEN [pushed EXCEPT !.scroll_stack = Append(@, <<>>)]
                   ELSE pushed
        popped == IF top > 0
                  THEN [acc EXCEPT
                           !.scroll_stack = SubSeq(@, 1, top - 1),
                           !.elements = Append(@, CropElement(idx, acc.scroll_stack[top]))]
                  ELSE acc
    IN collect_elements(order, i + 1,
           IF order[i] = VisitWidget(idx)
           THEN IF ~IsWidget(node) THEN acc
                ELSE IF ~c.is_updated
                THEN [acc EXCEPT !.nodes[idx].container.was_previously_updated = FALSE]
                ELSE [grouped EXCEPT !.nodes[idx].container =
                         [c EXCEPT !.was_previously_updated = TRUE,
                                   !.element_has_changed = FALSE,
                                   !.is_updated = FALSE]]
           ELSE IF ~IsWidget(node) \/ c.maybe_scrolling = None THEN acc
                ELSE [popped EXCEPT !.elements = Append(@, ScrollbarElement(idx))])

\* An Option<GraphIndex> of a capture as the Option<NodeIndex> element uses.
captured_node(G, maybe_captured) ==
    IF maybe_captured = None THEN None
    ELSE to_node_index(Unwrap(maybe_captured), G.index_map)

\* An element that leaves the flags of the widgets as it found them.
element_without_reset(maybe_captured_mouse, maybe_captured_keyboard, G) ==
    LET st == update_depth_order(captured_node(G, maybe_captured_mouse),
                                 captured_node(G, maybe_captured_keyboard), G)
        acc == collect_elements(st.depth_order, 1,
                   [nodes |-> G.nodes, elements |-> <<>>, scroll_stack |-> <<>>])
    IN [nodes |-> G.nodes, depth_order |-> st.depth_order,
        floating_deque |-> st.floating_deque, result |-> Some(acc.elements)]

\* Graph::element: the node weights and buffers it leaves, and the layers of
\* the Element it returns.
element(maybe_captured_mouse, maybe_captured_keyboard, G) ==
    LET st == update_depth_order(captured_node(G, maybe_captured_mouse),
                                 captured_node(G, maybe_captured_keyboard), G)
        acc == collect_elements(st.depth_order, 1,
                   [nodes |-> G.nodes, elements |-> <<>>, scroll_stack |-> <<>>])
    IN [nodes |-> acc.nodes, depth_order |-> st.depth_order,
        floating_deque |-> st.floating_deque, result |-> Some(acc.elements)]

\* Graph::have_any_elements_changed.
have_any_elements_changed(G) ==
    \E n \in NodeSet(G.nodes) :
        /\ IsWidget(G.nodes[n])
        /\ \/ G.nodes[n].container.element_has_changed
           \/ /\ ~G.nodes[n].container.is_updated
              /\ G.nodes[n].container.was_previously_updated

\* Graph::element_if_changed, with what it leaves when it returns None.
element_if_changed(maybe_captured_mouse, maybe_captured_keyboard, G, buffers) ==
    IF have_any_elements_changed(G)
    THEN element(maybe_captured_mouse, maybe_captured_keyboard, G)
    ELSE [nodes |-> G.nodes, depth_order |-> buffers.depth_order,
          floating_deque |-> buffers.floating_deque, result |-> None]

\* ------------------------------------------------------------------- events
\* input::MouseButton, the positions the cursor takes, the scroll steps and
\* the key a run of the handler uses.
MouseButtons == {"Left", "Right"}
Points == {<<0, 0>>, <<4, 0>>, <<5, 0>>, <<0, 5>>}
ScrollSteps == {<<1, 2>>, <<-1, 0>>}
Keys == {"Z"}

\* input::Input, as far as push_event tells its variants apart.
Press(button) == [kind |-> "Press", button |-> button]
Release(button) == [kind |-> "Release", button |-> button]
PressKey(key) == [kind |-> "PressKey", key |-> key]
MouseCursor(xy) == [kind |-> "MouseCursor", xy |-> xy]
MouseScroll(xy) == [kind |-> "MouseScroll", xy |-> xy]

\* ConrodEvent and the events it wraps (ModifierKey is always the default).
Raw(input) == [tag |-> "Raw", input |-> input]
MouseClickEvent(button, location) ==
    [tag |-> "MouseClick", button |-> button, location |-> location]
MouseDragEvent(button, start, end, in_progress) ==
    [tag |-> "MouseDrag", button |-> button, start |-> start, end |-> end,
     in_progress |-> in_progress]
ScrollEvent(x, y) == [x |-> x, y |-> y]

\* ButtonMap: for each button, the position it was pressed at while it is held.
ButtonMap == [b \in MouseButtons |-> None]
set(map, button, maybe_point) == [map EXCEPT ![button] = maybe_point]
take(map, button) == [point |-> map[button], map |-> [map EXCEPT ![button] = None]]
\* ButtonMap::pressed_button answers with one held button; which one, when
\* several are held, is left open here: every held button is a possible answer.
pressed_button(map) ==
    IF \A b \in MouseButtons : map[b] = None
    THEN {None}
    ELSE {Some(<<b, Unwrap(map[b])>>) : b \in {c \in MouseButtons : map[c] # None}}

\* EventHandlerImpl::new: drag_threshold is 4.0.
drag_threshold == 4

\* distance_between(a, b), squared: the coordinates are whole numbers here and
\* the square root keeps the order, so is_drag compares the squares.
distance_between_squared(a, b) ==
    (a[1] - b[1]) * (a[1] - b[1]) + (a[2] - b[2]) * (a[2] - b[2])

is_drag_from_threshold(a, b) ==
    distance_between_squared(a, b) >= drag_threshold * drag_threshold

\* EventHandlerImpl::is_drag.
is_drag(a, b) ==
    distance_between_squared(a, b) > drag_threshold * drag_threshold

\* EventHandlerImpl::handle_mouse_move, with the answer of pressed_button.
handle_mouse_move(h, move_to, maybe_pressed) ==
    [h |-> [h EXCEPT !.mouse_position = move_to],
     maybe_new_event |->
        IF maybe_pressed = None THEN None
        ELSE LET btn_and_point == Unwrap(maybe_pressed)
             IN  IF is_drag(btn_and_point[2], move_to)
                 THEN Some(MouseDragEvent(btn_and_point[1], btn_and_point[2],
                                          move_to, TRUE))
                 ELSE None]

\* EventHandlerImpl::handle_mouse_release.
handle_mouse_release(h, button) ==
    LET taken == take(h.mouse_buttons, button)
    IN  [h |-> [h EXCEPT !.mouse_buttons = taken.map],
         maybe_new_event |->
            IF taken.point = None THEN None
            ELSE LET point == Unwrap(taken.point)
                 IN  IF is_drag(point, h.mouse_position)
                     THEN Some(MouseDragEvent(button, point, h.mouse_position, FALSE))
                     ELSE Some(MouseClickEvent(button, point))]

\* EventHandlerImpl::handle_mouse_press.
handle_mouse_press(h, button) ==
    [h |-> [h EXCEPT !.mouse_buttons = set(@, button, Some(h.mouse_position))],
     maybe_new_event |-> None]

\* The match of push_event on the event it is handed.
maybe_new_event(h, event, maybe_pressed) ==
    IF event.tag # "Raw" THEN [h |-> h, maybe_new_event |-> None]
    ELSE IF event.input.kind = "Press" THEN handle_mouse_press(h, event.input.button)
    ELSE IF event.input.kind = "Release" THEN handle_mouse_release(h, event.input.button)
    ELSE IF event.input.kind = "MouseCursor"
         THEN handle_mouse_move(h, event.input.xy, maybe_pressed)
    ELSE [h |-> h, maybe_new_event |-> None]

push_event_after_derived(h, event, maybe_pressed) ==
    LET r == maybe_new_event(h, event, maybe_pressed)
    IN  [r.h EXCEPT !.events =
            IF r.maybe_new_event = None THEN Append(@, event)
            ELSE Append(Append(@, Unwrap(r.maybe_new_event)), event)]

\* EventHandlerImpl::push_event: the event is stored, then the event it gave
\* rise to is pushed in turn.
RECURSIVE push_event(_, _, _)
push_event(h, event, maybe_pressed) ==
    LET r == maybe_new_event(h, event, maybe_pressed)
        pushed == [r.h EXCEPT !.events = Append(@, event)]
    IN  IF r.maybe_new_event = None THEN pushed
        ELSE push_event(pushed, Unwrap(r.maybe_new_event), maybe_pressed)

\* EventHandlerImpl::all_events.
all_events(h) == h.events

scroll_of_last_event(h) ==
    LET scrolls == SelectSeq(all_events(h),
                       LAMBDA evt : evt.tag = "Raw" /\ evt.input.kind = "MouseScroll")
    IN  IF scrolls = <<>> THEN None
        ELSE Some(ScrollEvent(scrolls[Len(scrolls)].input.xy[1],
                              scrolls[Len(scrolls)].input.xy[2]))

\* The fold of ConrodEventHandler::scroll over the scroll events from the
\* i-th on.
RECURSIVE scroll_fold(_, _, _)
scroll_fold(scrolls, i, maybe_scroll) ==
    IF i > Len(scrolls) THEN maybe_scroll
    ELSE scroll_fold(scrolls, i + 1,
             IF maybe_scroll # None
             THEN {ScrollEvent(acc.x + scrolls[i].x, acc.y + scrolls[i].y) :
                     acc \in maybe_scroll}
             ELSE Some(scrolls[i]))

\* ConrodEventHandler::scroll.
scroll(h) ==
    LET raw == SelectSeq(all_events(h),
                   LAMBDA evt : evt.tag = "Raw" /\ evt.input.kind = "MouseScroll")
        scrolls == [i \in 1..Len(raw) |-> ScrollEvent(raw[i].input.xy[1],
                                                       raw[i].input.xy[2])]
    IN  scroll_fold(scrolls, 1, None)

mouse_drag_first(h, button) ==
    LET drags == SelectSeq(all_events(h),
                     LAMBDA evt : evt.tag = "MouseDrag" /\ evt.button = button)
    IN  IF drags = <<>> THEN None ELSE Some(drags[1])

\* ConrodEventHandler::mouse_drag.
mouse_drag(h, button) ==
    LET drags == SelectSeq(all_events(h),
                     LAMBDA evt : evt.tag = "MouseDrag" /\ evt.button = button)
    IN  IF drags = <<>> THEN None ELSE Some(drags[Len(drags)])

\* ConrodEventHandler::mouse_click.
mouse_click(h, button) ==
    LET clicks == SelectSeq(all_events(h),
                      LAMBDA evt : evt.tag = "MouseClick" /\ evt.button = button)
    IN  IF clicks = <<>> THEN None ELSE Some(clicks[1])

\* ------------------------------------------------------------ number dialer
\* number_dialer::Element: the value glyph slots and the heights of the
\* cursor a run uses.
Slots == {0, 1}
Heights == {0, 1}
ValueGlyph(idx, y) == [elem |-> "ValueGlyph", idx |-> idx, y |-> y]
Elements ==
    {[elem |-> "Rect"], [elem |-> "LabelGlyphs"]}
        \cup {ValueGlyph(idx, y) : idx \in Slots, y \in Heights}

\* number_dialer::State.
Normal == [tag |-> "Normal"]
Highlighted(elem) == [tag |-> "Highlighted", elem |-> elem]
Clicked(elem) == [tag |-> "Clicked", elem |-> elem]

\* mouse::Mouse, as far as get_new_state reads it: the left button and the
\* height of the cursor.
Mouse(left, y) == [left |-> left, pos |-> <<0, y>>]

\* A state machine that takes a press over the widget for a click whatever
\* the state before.
get_new_state_clicking_at_once(is_over_elem, prev, mouse) ==
    IF is_over_elem # None /\ mouse.left = "Down" THEN Clicked(Unwrap(is_over_elem))
    ELSE IF is_over_elem # None THEN Highlighted(Unwrap(is_over_elem))
    ELSE Normal

\* number_dialer::get_new_state: the arms of the match, in their order.
get_new_state(is_over_elem, prev, mouse) ==
    IF is_over_elem # None /\ prev.tag = "Normal" /\ mouse.left = "Down" THEN Normal
    ELSE IF is_over_elem # None /\ mouse.left = "Up"
    THEN Highlighted(Unwrap(is_over_elem))
    ELSE IF is_over_elem # None /\ prev.tag = "Highlighted" /\ mouse.left = "Down"
    THEN Clicked(Unwrap(is_over_elem))
    ELSE IF prev.tag = "Clicked" /\ mouse.left = "Down"
    THEN IF prev.elem.elem = "ValueGlyph"
         THEN Clicked(ValueGlyph(prev.elem.idx, mouse.pos[2]))
         ELSE Clicked(prev.elem)
    ELSE Normal

\* ------------------------------------------------------------------ actions
\* Graph::with_capacity: the root alone, empty map and buffers; and
\* EventHandlerImpl::new: no event, no button held, the cursor at the origin.
Init ==
    /\ events = <<>>
    /\ mouse_buttons = ButtonMap
    /\ mouse_position = <<0, 0>>
    /\ dialer_state = Normal
    /\ nodes = <<RootNode>>
    /\ edges = <<>>
    /\ index_map = [id \in Ids |-> None]
    /\ depth_order = <<>>
    /\ floating_deque = <<>>
    /\ stderr = <<>>
    /\ panic = None
    /\ calls = 0
    /\ frames = 0
    /\ placeholders = {}
    /\ last_call = [op |-> "with_capacity"]

Graph == [nodes |-> nodes, edges |-> edges, index_map |-> index_map,
          stderr |-> stderr]

\* The indices a caller can name: any widget id, and the NodeIndex of any
\* placeholder add_placeholder has returned to it.
Indices == {PublicIdx(id) : id \in Ids} \cup {InternalIdx(n) : n \in placeholders}
MaybeIndices == {None} \cup {Some(i) : i \in Indices}

\* The widget ids a call names that have no node yet.
FreshIds(i, p, r) ==
    {x[2] : x \in {y \in {i} \cup p \cup r : y[1] = "Id" /\ index_map[y[2]] = None}}

\* Widget ids are opaque to the graph, so runs that differ only in which id
\* is used first are the same run renamed: a call may name, among the ids
\* without a node, only the lowest ones.
InOrderOfFirstUse(i, p, r) ==
    \A id \in FreshIds(i, p, r) :
        \A lower \in Ids : lower < id /\ index_map[lower] = None
                           => lower \in FreshIds(i, p, r)

\* The arguments of pre_update_cache with the kind, depth, floating and
\* scrolling data drawn from K, D, F and S.
CallArgs(K, D, F, S) ==
    {PreUpdateCacheArg(k, c[1], c[2], c[3], d, KidArea, f, sc) :
        k \in K, d \in D, f \in F, sc \in S,
        c \in {x \in Indices \X MaybeIndices \X MaybeIndices :
                  InOrderOfFirstUse(x[1], x[2], x[3])}}

\* A run is one frame: the calls that set the frame's widgets, then the
\* computation of the frame's depth order.
drawn == last_call.op = "prepare_to_draw"

\* A call can be made: no call has panicked and the frame is not yet drawn.
Writing == panic = None /\ ~drawn

Running == Writing /\ calls < MaxCalls

\* Graph::add_placeholder.
AddPlaceholder ==
    /\ Running
    /\ Cardinality(placeholders) < MaxPlaceholders
    /\ nodes' = Append(nodes, PlaceholderNode)
    /\ placeholders' = placeholders \cup {Len(nodes) + 1}
    /\ calls' = calls + 1
    /\ last_call' = [op |-> "add_placeholder"]
    /\ UNCHANGED <<handler, dialer_state>>
    /\ UNCHANGED <<edges, index_map, depth_order, floating_deque, stderr, panic,
                   frames>>

\* Graph::pre_update_cache(w).
PreUpdateCache(w) ==
    /\ Writing
    /\ \E r \in {pre_update_cache(Graph, w)} :
          /\ nodes' = r.g.nodes
          /\ edges' = r.g.edges
          /\ index_map' = r.g.index_map
          /\ stderr' = r.g.stderr
          /\ panic' = r.panic
    /\ calls' = calls + 1
    /\ last_call' = [op |-> "pre_update_cache", w |-> w]
    /\ UNCHANGED <<handler, dialer_state>>
    /\ UNCHANGED <<depth_order, floating_deque, placeholders, frames>>

\* Graph::prepare_to_draw with the nodes capturing the mouse and the keyboard.
PrepareToDraw(maybe_captured_mouse, maybe_captured_keyboard) ==
    /\ panic = None /\ ~drawn
    /\ \E st \in {update_depth_order(maybe_captured_mouse, maybe_captured_keyboard,
                                      Graph)} :
          /\ depth_order' = st.depth_order
          /\ floating_deque' = st.floating_deque
    /\ last_call' = [op |-> "prepare_to_draw", mouse |-> maybe_captured_mouse,
                      keyboard |-> maybe_captured_keyboard]
    /\ UNCHANGED <<handler, dialer_state>>
    /\ UNCHANGED <<nodes, edges, index_map, stderr, panic, placeholders, calls,
                   frames>>

\* The depth order is the one of the graph as it is.
ordered == last_call.op \in {"prepare_to_draw", "pick_widget"}

\* Graph::pick_widget(xy), the point xy given by the nodes whose rectangle
\* and whose scroll handle it is over.
PickWidget(over_rect, over_handle) ==
    /\ panic = None /\ ordered
    /\ last_call' = [op |-> "pick_widget", over_rect |-> over_rect,
                     over_handle |-> over_handle,
                     result |-> pick_widget(Graph, depth_order, over_rect,
                                            over_handle)]
    /\ UNCHANGED <<handler, dialer_state>>
    /\ UNCHANGED <<nodes, edges, index_map, depth_order, floating_deque, stderr,
                   panic, calls, frames, placeholders>>

\* The NodeIndex of each Widget entry of the depth order, in order.
RECURSIVE widget_indices(_)
widget_indices(order) ==
    IF order = <<>> THEN <<>>
    ELSE IF order[1][1] = "Widget"
    THEN <<order[1][2]>> \o widget_indices(Tail(order))
    ELSE widget_indices(Tail(order))

\* Primitives::new(..).draw(..) on the depth order, the widgets' containers
\* holding what `containers` says: last_call keeps the primitives drawn.
Draw(containers, window_dim) ==
    /\ panic = None /\ drawn
    /\ last_call' = [op |-> "draw", containers |-> containers,
                     window_rect |-> from_xy_dim(<<0, 0>>, window_dim),
                     primitives |-> draw(Graph, containers,
                                         widget_indices(depth_order), window_dim)]
    /\ UNCHANGED <<handler, dialer_state>>
    /\ UNCHANGED <<nodes, edges, index_map, depth_order, floating_deque, stderr,
                   panic, calls, frames, placeholders>>

\* Graph::post_update_cache(widget).
PostUpdateCache(widget) ==
    /\ Writing
    /\ nodes' = post_update_cache(Graph, widget).nodes
    /\ calls' = calls + 1
    /\ last_call' = [op |-> "post_update_cache", w |-> widget]
    /\ UNCHANGED <<handler, dialer_state>>
    /\ UNCHANGED <<edges, index_map, depth_order, floating_deque, stderr, panic,
                   placeholders, frames>>

\* Graph::scroll_offset(idx), a query: last_call keeps its result.
ScrollOffset(idx) ==
    /\ panic = None /\ ~drawn
    /\ last_call' = [op |-> "scroll_offset", idx |-> idx,
                     result |-> scroll_offset(Graph, idx)]
    /\ UNCHANGED <<handler, dialer_state>>
    /\ UNCHANGED <<nodes, edges, index_map, depth_order, floating_deque, stderr,
                   panic, calls, frames, placeholders>>

\* Graph::get_widget(idx) or get_widget_mut(idx), without a write through
\* the reference: last_call keeps what was found.
GetWidget(idx) ==
    /\ panic = None /\ ~drawn
    /\ last_call' = [op |-> "get_widget", idx |-> idx,
                     result |-> get_widget(Graph, idx)]
    /\ UNCHANGED <<handler, dialer_state>>
    /\ UNCHANGED <<nodes, edges, index_map, depth_order, floating_deque, stderr,
                   panic, calls, frames, placeholders>>

\* graph[idx]: last_call keeps the container, panic the failure.
Index(idx) ==
    /\ panic = None /\ ~drawn
    /\ \E r \in {index(Graph, idx)} :
          /\ panic' = r.panic
          /\ last_call' = [op |-> "index", idx |-> idx, result |-> r.result]
    /\ UNCHANGED <<handler, dialer_state>>
    /\ UNCHANGED <<nodes, edges, index_map, depth_order, floating_deque, stderr,
                   calls, frames, placeholders>>

\* What a call of element or element_if_changed that returns r leaves;
\* last_call keeps with it the operation the call came after.
Returns(op, maybe_captured_mouse, maybe_captured_keyboard, r) ==
    /\ nodes' = r.nodes
    /\ depth_order' = r.depth_order
    /\ floating_deque' = r.floating_deque
    /\ frames' = frames + 1
    /\ last_call' = [op |-> op,
                     mouse |-> captured_node(Graph, maybe_captured_mouse),
                     keyboard |-> captured_node(Graph, maybe_captured_keyboard),
                     result |-> r.result, after |-> last_call.op]
    /\ UNCHANGED <<handler, dialer_state>>
    /\ UNCHANGED <<edges, index_map, stderr, panic, placeholders, calls>>

\* Graph::element(maybe_captured_mouse, maybe_captured_keyboard).
Element(maybe_captured_mouse, maybe_captured_keyboard) ==
    /\ panic = None /\ ~drawn /\ frames < MaxFrames
    /\ \E r \in {element(maybe_captured_mouse, maybe_captured_keyboard, Graph)} :
          Returns("element", maybe_captured_mouse, maybe_captured_keyboard, r)

\* Graph::element_if_changed(maybe_captured_mouse, maybe_captured_keyboard).
ElementIfChanged(maybe_captured_mouse, maybe_captured_keyboard) ==
    /\ panic = None /\ ~drawn /\ frames < MaxFrames
    /\ \E r \in {element_if_changed(maybe_captured_mouse, maybe_captured_keyboard,
                     Graph, [depth_order |-> depth_order,
                             floating_deque |-> floating_deque])} :
          Returns("element_if_changed", maybe_captured_mouse,
                  maybe_captured_keyboard, r)

\* The handler, as the value its methods take and return.
Handler == [events |-> events, mouse_buttons |-> mouse_buttons,
            mouse_position |-> mouse_position]

graph == <<nodes, edges, index_map, depth_order, floating_deque, stderr, panic,
           calls, frames, placeholders>>

\* The raw events pushed so far.
RawEvents == SelectSeq(events, LAMBDA evt : evt.tag = "Raw")

\* EventHandlerImpl::push_event(event).
PushEvent(event) ==
    /\ Len(RawEvents) < MaxPushes
    /\ \E maybe_pressed \in pressed_button(mouse_buttons) :
          \E h \in {push_event(Handler, event, maybe_pressed)} :
             /\ events' = h.events
             /\ mouse_buttons' = h.mouse_buttons
             /\ mouse_position' = h.mouse_position
    /\ last_call' = [op |-> "push_event", event |-> event]
    /\ UNCHANGED <<graph, dialer_state>>

\* What a method that only reads the handler leaves behind.
Answers(op, button, result) ==
    /\ last_call' = [op |-> op, button |-> button, result |-> result]
    /\ UNCHANGED <<handler, dialer_state>>
    /\ UNCHANGED <<graph, dialer_state>>

\* EventHandlerImpl::all_events().
AllEvents == Answers("all_events", None, all_events(Handler))

\* ConrodEventHandler::scroll().
Scroll == Answers("scroll", None, scroll(Handler))

\* ConrodEventHandler::mouse_drag(button).
MouseDrag(button) == Answers("mouse_drag", Some(button), mouse_drag(Handler, button))

\* ConrodEventHandler::mouse_click(button).
MouseClick(button) == Answers("mouse_click", Some(button), mouse_click(Handler, button))

\* NumberDialer::draw, as far as the state goes: the new state is computed
\* from the element under the cursor, the stored state and the mouse, and
\* stored.
GetNewState(is_over_elem, mouse) ==
    /\ dialer_state' = get_new_state(is_over_elem, dialer_state, mouse)
    /\ last_call' = [op |-> "get_new_state", is_over_elem |-> is_over_elem,
                     prev |-> dialer_state, mouse |-> mouse]
    /\ UNCHANGED <<graph, handler>>

\* The nodes that may hold the mouse or the keyboard: none, or any node but
\* the root.
MaybeCaptures == {None} \cup {Some(n) : n \in NodeSet(nodes) \ {root}}

FloatingChoices == {None} \cup {Some(t) : t \in Times}
ScrollingChoices == {None, Some("Scroll")}

\* The graph operations alone, on widgets of one kind: every parent and
\* positioning request, on widget ids and on placeholders.
Next ==
    \/ AddPlaceholder
    \/ Running /\ \E w \in CallArgs({"Button"}, {1}, {None}, {None}) : PreUpdateCache(w)

Spec == Init /\ [][Next]_vars

\* Widgets of every kind under every parent request, none positioned
\* relative to another.
NextKind ==
    Running /\ \E w \in {x \in CallArgs(Kinds, {1}, {None}, {None}) :
                            x.maybe_positioned_relatively_idx = None} :
                   PreUpdateCache(w)

SpecKind == Init /\ [][NextKind]_vars

\* One frame of non-floating widgets of one kind with every depth, closed by
\* the depth order under every capture.
NextDepth ==
    \/ Running /\ \E w \in CallArgs({"Button"}, Depths, {None}, {None}) :
                      PreUpdateCache(w)
    \/ ~drawn /\ \E m \in MaybeCaptures, k \in MaybeCaptures : PrepareToDraw(m, k)

SpecDepth == Init /\ [][NextDepth]_vars

\* One frame of widgets of one kind and depth, floating or not, closed by the
\* depth order under every mouse capture.
NextFloat ==
    \/ Running /\ \E w \in CallArgs({"Button"}, {1}, FloatingChoices, {None}) :
                      PreUpdateCache(w)
    \/ ~drawn /\ \E m \in MaybeCaptures : PrepareToDraw(m, None)

SpecFloat == Init /\ [][NextFloat]_vars

\* One frame of widgets of one kind and depth, scrollable or not, closed by
\* the depth order with no capture.
NextScroll ==
    \/ Running /\ \E w \in CallArgs({"Button"}, {1}, {None}, ScrollingChoices) :
                      PreUpdateCache(w)
    \/ ~drawn /\ PrepareToDraw(None, None)

SpecScroll == Init /\ [][NextScroll]_vars

\* The scroll state offered: a vertical bar half way down 200 and a
\* horizontal bar half way along 300.
ScrollStates ==
    {ScrollState(Some(ScrollBar(Scalar(1, 2), Scalar(1, 1), Scalar(200, 1))),
                 Some(ScrollBar(Scalar(1, 2), Scalar(1, 1), Scalar(300, 1))))}

\* The canvas of the application: widget id 1, scrollable, below the root.
Canvas(scrolling) ==
    PreUpdateCacheArg("Button", PublicIdx(1), None, None, 1, KidArea, None,
                      Some(scrolling))

\* The first calls of the application: add_placeholder, for the index of an
\* internal widget, and pre_update_cache for its canvas; the calls of the
\* run are counted after them.
SetCanvas ==
    /\ last_call.op = "with_capacity"
    /\ \E scrolling \in ScrollStates :
          \E r \in {pre_update_cache(
                        [nodes |-> Append(nodes, PlaceholderNode), edges |-> edges,
                         index_map |-> index_map, stderr |-> stderr],
                        Canvas(scrolling))} :
              /\ nodes' = r.g.nodes
              /\ edges' = r.g.edges
              /\ index_map' = r.g.index_map
              /\ stderr' = r.g.stderr
              /\ panic' = r.panic
              /\ last_call' = [op |-> "pre_update_cache", w |-> Canvas(scrolling)]
    /\ placeholders' = {Len(nodes) + 1}
    /\ UNCHANGED <<handler, dialer_state>>
    /\ UNCHANGED <<depth_order, floating_deque, calls, frames>>

\* w is a call of a frame that sets each widget once, parents before
\* children: for a widget not set yet, under a node there is or the root,
\* positioned relative to a node there is or to none.
OffsetArg(w) ==
    /\ get_widget(Graph, w.idx) = None
    /\ \A p \in w.maybe_parent_idx : to_node_index(p, index_map) # None
    /\ \A t \in w.maybe_positioned_relatively_idx :
           to_node_index(t, index_map) # None

\* The canvas is set, then the widgets of the frame, scrollable or not, and
\* then the scroll offset of any index is asked for, again and again.
NextOffset ==
    \/ SetCanvas
    \/ Running /\ last_call.op = "pre_update_cache"
               /\ \E w \in CallArgs({"Button"}, {1}, {None},
                               {None} \cup {Some(sc) : sc \in ScrollStates}) :
                      OffsetArg(w) /\ PreUpdateCache(w)
    \/ \E idx \in Indices : ScrollOffset(idx)

SpecOffset == Init /\ [][NextOffset]_vars

\* Widgets, scrollable or not, are set under every parent, the depth order
\* is computed, and then the widget at any point is asked for.
NextPick ==
    \/ Running /\ ~ordered
               /\ \E w \in CallArgs({"Button"}, {1}, {None}, ScrollingChoices) :
                      /\ w.maybe_positioned_relatively_idx = None
                      /\ PreUpdateCache(w)
    \/ ~ordered /\ PrepareToDraw(None, None)
    \/ \E over_rect \in SUBSET {n \in 1..Len(nodes) : IsWidget(nodes[n])} :
           \E over_handle \in SUBSET {n \in 1..Len(nodes) :
                   IsWidget(nodes[n]) /\ nodes[n].container.maybe_scrolling # None} :
               PickWidget(over_rect, over_handle)

SpecPick == Init /\ [][NextPick]_vars

\* The window of the application.
WindowDim == <<16, 16>>

\* The rectangles of the widgets with the rectangles of their kid areas: a
\* large one in the window, a narrow one at the right edge of the window,
\* and one outside the window.
Rects ==
    {<<Rect(Range(0 - 6, 6), Range(0 - 6, 6)), Rect(Range(0 - 4, 4), Range(0 - 4, 4))>>,
     <<Rect(Range(6, 8), Range(0 - 4, 4)), Rect(Range(6, 8), Range(0 - 2, 2))>>,
     <<Rect(Range(12, 18), Range(0 - 4, 4)), Rect(Range(14, 16), Range(0 - 2, 2))>>}

\* The kinds of the widgets: two that Primitives::draw knows and one that
\* it does not.
DrawnKinds == {"Rectangle", "FramedRectangle", "Button"}

Looks ==
    {Look(r[1], r[2], crop_kids, kind) :
        r \in Rects, crop_kids \in BOOLEAN, kind \in DrawnKinds}

\* What the containers of the Widget nodes may hold; the other nodes hold
\* no container.
Containers ==
    {[n \in 1..Len(nodes) |-> IF IsWidget(nodes[n]) THEN c[n] ELSE [kind |-> "None"]] :
        c \in [{n \in 1..Len(nodes) : IsWidget(nodes[n])} -> Looks]}

\* The widgets of a frame, floating or not, are set once each, parents
\* before children, the depth order is computed, and the primitives of the
\* frame are drawn.
NextDraw ==
    \/ Running /\ last_call.op # "draw"
               /\ \E w \in CallArgs({"Button"}, {1}, {None, Some(1)}, {None}) :
                      /\ w.maybe_positioned_relatively_idx = None
                      /\ OffsetArg(w)
                      /\ PreUpdateCache(w)
    \/ ~drawn /\ last_call.op # "draw" /\ PrepareToDraw(None, None)
    \/ drawn /\ \E c \in Containers : Draw(c, WindowDim)

SpecDraw == Init /\ [][NextDraw]_vars

\* The states and the Elements the updates of the widget at idx produce.
States == {"State1", "State2"}
ElementsOf(idx) == {[element |-> idx, version |-> v] : v \in {"a", "b"}}

\* The arguments of post_update_cache: any index, either state, with any new
\* Element or none.
PostArgsOfAnyState ==
    UNION {{PostUpdateCacheArg(i, st, e) :
               st \in States, e \in {None} \cup {Some(el) : el \in ElementsOf(i)}} :
              i \in {x \in Indices : InOrderOfFirstUse(x, None, None)}}

\* Widgets of one kind are set under every parent and positioning request,
\* and updates hand in their states and Elements, for any index.
NextPost ==
    \/ AddPlaceholder
    \/ Running /\ \E w \in CallArgs({"Button"}, {1}, {None}, {None}) :
                      PreUpdateCache(w)
    \/ Running /\ \E w \in PostArgsOfAnyState : PostUpdateCache(w)

SpecPost == Init /\ [][NextPost]_vars

Lookups == {"scroll_offset", "get_widget", "index"}

\* Widgets of one kind are set under every parent and positioning request,
\* and then any index is looked up, in each way there is, again and again.
NextLookup ==
    \/ last_call.op \notin Lookups /\ AddPlaceholder
    \/ Running /\ last_call.op \notin Lookups
               /\ \E w \in CallArgs({"Button"}, {1}, {None}, {None}) :
                      PreUpdateCache(w)
    \/ \E idx \in Indices : ScrollOffset(idx)
    \/ \E idx \in Indices : GetWidget(idx)
    \/ \E idx \in Indices : Index(idx)

SpecLookup == Init /\ [][NextLookup]_vars

\* The Element the update of the widget at idx hands to post_update_cache.
ElementOf(idx) == [element |-> idx]

\* The arguments of post_update_cache: any index, with a new Element or none.
PostArgs ==
    UNION {{PostUpdateCacheArg(i, "State", None),
            PostUpdateCacheArg(i, "State", Some(ElementOf(i)))} :
              i \in {x \in Indices : InOrderOfFirstUse(x, None, None)}}

\* Frame after frame: widgets of one kind are set under every parent and
\* positioning request, their updates hand in Elements, and the frame's
\* Element is asked for, with no capture.
NextCycle ==
    \/ Running /\ \E w \in CallArgs({"Button"}, {1}, {None}, {None}) : PreUpdateCache(w)
    \/ Running /\ \E w \in PostArgs : PostUpdateCache(w)
    \/ Element(None, None)
    \/ ElementIfChanged(None, None)

SpecCycle == Init /\ [][NextCycle]_vars

\* The raw events a window hands to the handler.
Inputs ==
    {Press(b) : b \in MouseButtons} \cup {Release(b) : b \in MouseButtons}
        \cup {MouseCursor(xy) : xy \in Points}
        \cup {MouseScroll(xy) : xy \in ScrollSteps}
        \cup {PressKey(k) : k \in Keys}

\* A handler is fed raw events and asked for what it has seen in between.
NextEvents ==
    \/ \E input \in Inputs : PushEvent(Raw(input))
    \/ AllEvents
    \/ Scroll
    \/ \E button \in MouseButtons : MouseDrag(button)
    \/ \E button \in MouseButtons : MouseClick(button)

SpecEvents == Init /\ [][NextEvents]_vars

\* Any sequence of add_placeholder and pre_update_cache calls, cyclic
\* requests included, with scroll_offset asked about any index in between.
NextWalk ==
    \/ AddPlaceholder
    \/ Running /\ \E w \in CallArgs({"Button"}, {1}, {None}, {None}) : PreUpdateCache(w)
    \/ \E idx \in Indices : scroll_offset_returns(Graph, idx) /\ ScrollOffset(idx)

SpecWalk == Init /\ [][NextWalk]_vars

\* Widgets are set again and again, with another depth, scroll state or
\* parent, between their updates and the frames drawn from them.
NextUpdate ==
    \/ Running /\ \E w \in CallArgs({"Button"}, Depths, {None}, ScrollingChoices) :
                      /\ w.maybe_positioned_relatively_idx = None
                      /\ PreUpdateCache(w)
    \/ Running /\ \E w \in PostArgs : PostUpdateCache(w)
    \/ Element(None, None)

SpecUpdate == Init /\ [][NextUpdate]_vars

\* The calls of a frame of a scrollable canvas may be made.
Layering ==
    Writing /\ last_call.op \notin {"with_capacity", "element"}
            /\ calls < MaxLayerCalls

\* The frame of a scrollable canvas: widgets, scrollable or not, are set
\* below the widgets there are, updates hand in their Elements, and the
\* frame's Element is asked for.
NextLayers ==
    \/ SetCanvas
    \/ Layering /\ \E w \in CallArgs({"Button"}, {1}, {None}, ScrollingChoices) :
                       /\ w.maybe_positioned_relatively_idx = None
                       /\ OffsetArg(w)
                       /\ PreUpdateCache(w)
    \/ Layering /\ \E w \in PostArgs :
                       /\ w.maybe_element # None
                       /\ get_widget(Graph, w.idx) # None
                       /\ PostUpdateCache(w)
    \/ last_call.op # "with_capacity" /\ frames = 0 /\ Element(None, None)

SpecLayers == Init /\ [][NextLayers]_vars

\* What is_over finds under a cursor at height y: nothing, the rectangle,
\* the label, or a value glyph slot with the height of the cursor.
IsOverAt(y) ==
    {None, Some([elem |-> "Rect"]), Some([elem |-> "LabelGlyphs"])}
        \cup {Some(ValueGlyph(idx, y)) : idx \in Slots}

\* A number dialer is drawn frame after frame, under any mouse.
NextDialer ==
    \E left \in {"Up", "Down"}, y \in Heights :
        \E is_over_elem \in IsOverAt(y) : GetNewState(is_over_elem, Mouse(left, y))

SpecDialer == Init /\ [][NextDialer]_vars

\* ------------------------------------------------- vocabulary of the claims
\* The nodes one edge (of any variant) away from n.
Successors(E, n) == {E[i].b : i \in {j \in 1..Len(E) : E[j].a = n}}

RECURSIVE Closure(_, _)
\* The nodes reachable from the set S along edges of E, S included.
Closure(E, S) ==
    LET more == S \cup UNION {Successors(E, n) : n \in S}
    IN IF more = S THEN S ELSE Closure(E, more)

\* b reaches a along zero or more edges.
Reaches(E, b, a) == a \in Closure(E, {b})

\* Some node lies on a directed cycle of E.
HasCycle(E) == \E i \in 1..Len(E) : Reaches(E, E[i].b, E[i].a)

\* The sources of the edges of variant `edge` into node n.
Sources(E, n, edge) ==
    {E[i].a : i \in {j \in 1..Len(E) : E[j].b = n /\ E[j].edge = edge}}

\* The number of edges of variant `edge` into node n.
InDegree(E, n, edge) ==
    Cardinality({j \in 1..Len(E) : E[j].b = n /\ E[j].edge = edge})

WidgetNodes == {n \in NodeSet(nodes) : IsWidget(nodes[n])}

\* C1: after any sequence of add_placeholder and pre_update_cache calls the
\* graph, Child and RelativePosition edges together, has no directed cycle.
C1_Acyclic == ~HasCycle(edges)

\* C1 witness: set_edge has turned down an edge between two different
\* nodes, and the graph holds edges of both variants.
C1_Witness ==
    /\ \E i \in 1..Len(stderr) : stderr[i][1] # stderr[i][2]
    /\ \E i, j \in 1..Len(edges) :
          edges[i].edge = "Child" /\ edges[j].edge = "RelativePosition"

\* C3: every node has at most one incoming Child edge and at most one
\* incoming RelativePosition edge.
C3_SingleIncoming ==
    \A n \in NodeSet(nodes) :
        /\ InDegree(edges, n, "Child") <= 1
        /\ InDegree(edges, n, "RelativePosition") <= 1

\* C3 witness: the only widget of the graph has been passed to
\* pre_update_cache more than once (every call of the run concerned it or
\* its placeholder parent) and holds one incoming edge of each variant.
C3_Witness ==
    /\ calls = MaxCalls
    /\ Cardinality(WidgetNodes) = 1
    /\ \A n \in WidgetNodes :
          /\ InDegree(edges, n, "Child") = 1
          /\ InDegree(edges, n, "RelativePosition") = 1

\* The step is a pre_update_cache call; its argument is last_call'.w.
IsPreUpdate == last_call'.op = "pre_update_cache"

\* In a pre_update_cache step: the node the widget of the call had before the
\* call, the node of the parent it names (the root when it names none) and
\* the node of the widget it asks to be positioned relative to, each as an
\* Option over the nodes that existed before the call.
NodeBefore == to_node_index(last_call'.w.idx, index_map)
ParentBefore ==
    IF last_call'.w.maybe_parent_idx = None THEN Some(root)
    ELSE to_node_index(Unwrap(last_call'.w.maybe_parent_idx), index_map)
RelativeBefore ==
    IF last_call'.w.maybe_positioned_relatively_idx = None THEN None
    ELSE to_node_index(Unwrap(last_call'.w.maybe_positioned_relatively_idx), index_map)

\* The Child edge the call asks for would close a cycle: the widget's node
\* already reaches the parent's.
ChildWouldCycle ==
    /\ NodeBefore # None /\ ParentBefore # None
    /\ Reaches(edges, Unwrap(NodeBefore), Unwrap(ParentBefore))

\* The same for the RelativePosition edge of a call that does not panic.
RelativeWouldCycle ==
    /\ panic' = None
    /\ NodeBefore # None /\ RelativeBefore # None
    /\ Reaches(edges, Unwrap(NodeBefore), Unwrap(RelativeBefore))

\* C2 (as claimed): when pre_update_cache asks for a Child or
\* RelativePosition edge a -> b that would create a cycle, the graph stays
\* acyclic and b keeps the incoming edge of that variant it had before the call.
C2_RejectedEdgeKeepsOldEdge ==
    [][IsPreUpdate =>
        /\ ChildWouldCycle =>
              /\ ~HasCycle(edges')
              /\ Sources(edges', Unwrap(NodeBefore), "Child")
                     = Sources(edges, Unwrap(NodeBefore), "Child")
        /\ RelativeWouldCycle =>
              /\ ~HasCycle(edges')
              /\ Sources(edges', Unwrap(NodeBefore), "RelativePosition")
                     = Sources(edges, Unwrap(NodeBefore), "RelativePosition")]_vars

\* The widget ids that have a node.
Mapped(map) == {id \in Ids : map[id] # None}

\* C10: once an identifier has a node it maps to that node for the rest of
\* the run.  No map entry and no node is ever removed; a node only ever
\* changes from Placeholder to Widget, in place, keeping its Child edges to
\* its children; a call for an identifier that has a node adds no node for it
\* (the only node a call can add besides is the placeholder of a parent that
\* had none); and every node other than the root is the node of exactly one
\* identifier or one add_placeholder call.
C10_NodesAreStable ==
    [][/\ \A id \in Mapped(index_map) : index_map'[id] = index_map[id]
       /\ Len(nodes') >= Len(nodes)
       /\ \A n \in NodeSet(nodes) :
             \/ nodes'[n].tag = nodes[n].tag
             \/ nodes[n].tag = "Placeholder" /\ nodes'[n].tag = "Widget"
       /\ \A n \in NodeSet(nodes) :
             nodes[n].tag = "Placeholder" /\ nodes'[n].tag = "Widget" =>
                 \A i \in 1..Len(edges) :
                     edges[i].a = n /\ edges[i].edge = "Child" =>
                         \E j \in 1..Len(edges') : edges'[j] = edges[i]
       /\ IsPreUpdate /\ NodeBefore # None =>
             Len(nodes') = Len(nodes) + (IF ParentBefore = None THEN 1 ELSE 0)
       /\ \A id1, id2 \in Mapped(index_map') :
             index_map'[id1] = index_map'[id2] => id1 = id2
       /\ Len(nodes') = 1 + Cardinality(placeholders')
                          + Cardinality(Mapped(index_map'))]_vars

\* C10 witness: the first call created widget 2 and, for the parent it named,
\* placeholder 3; the second call was for that parent, which is now a Widget
\* at the same node and still has its Child edge to widget 2.
C10_Witness ==
    /\ calls = 2 /\ Len(nodes) = 3
    /\ IsWidget(nodes[2]) /\ IsWidget(nodes[3])
    /\ \E id \in Ids : index_map[id] = Some(3)
    /\ \E i \in 1..Len(edges) : edges[i] = EdgeRec(3, 2, "Child")

\* C9 (as claimed): pre_update_cache for an identifier whose node holds a
\* Widget of a different kind panics with the kind mismatch and leaves the
\* container as it was.
C9_DifferentKindPanics ==
    [][IsPreUpdate /\ NodeBefore # None =>
        LET n == Unwrap(NodeBefore) IN
        IsWidget(nodes[n]) /\ nodes[n].container.kind # last_call'.w.kind =>
            panic' = Some("different kind") /\ nodes'[n] = nodes[n]]_vars

\* C9 (amended): it panics, leaving the container as it was, when the kinds
\* differ and the existing kind is not "EMPTY"; a container whose kind is
\* "EMPTY" takes the new kind without a panic.
C9_DifferentKindPanicsUnlessEmpty ==
    [][IsPreUpdate /\ NodeBefore # None =>
        LET n == Unwrap(NodeBefore) IN
        IsWidget(nodes[n]) /\ nodes[n].container.kind # last_call'.w.kind =>
            IF nodes[n].container.kind # "EMPTY"
            THEN panic' = Some("different kind") /\ nodes'[n] = nodes[n]
            ELSE panic' = None /\ nodes'[n].container.kind = last_call'.w.kind]_vars

\* C9 witness: a call has panicked with the kind mismatch.
C9_Witness == panic = Some("different kind")

\* ------------------------------------------- the depth order of the frame
\* The positions of depth_order that hold the Widget entry of node n.
WidgetEntries(n) == {i \in 1..Len(depth_order) : depth_order[i] = VisitWidget(n)}

\* The node an entry of the depth order belongs to.
EntryNode(v) == v[2]

\* The Child edges of the graph.
ChildEdges == SelectSeq(edges, LAMBDA e : e.edge = "Child")

\* a is a proper ancestor of d along Child edges.
IsAncestor(a, d) == a # d /\ Reaches(ChildEdges, a, d)

\* x and y are two children of one parent.
Siblings(x, y) ==
    x # y /\ Sources(edges, x, "Child") \cap Sources(edges, y, "Child") # {}

\* n holds the mouse or the keyboard in the frame's prepare_to_draw.
Captured(n) == Some(n) = last_call.mouse \/ Some(n) = last_call.keyboard

\* Widgets touched in the frame.
Touched(n) == IsWidget(nodes[n]) /\ nodes[n].container.is_updated

\* C4: in the depth order, wherever a widget D and one of its ancestors A
\* along Child edges both appear, the Widget entry of A comes strictly before
\* the Widget entry of D: no entry of D is without an entry of A before it.
C4_AncestorsFirst ==
    drawn =>
        \A a \in WidgetNodes, d \in WidgetNodes :
            IsAncestor(a, d) /\ WidgetEntries(a) # {} /\ WidgetEntries(d) # {}
            => \A i \in WidgetEntries(d) : \E j \in WidgetEntries(a) : j < i

\* C5: of two touched siblings in the depth order, neither holding the mouse
\* or the keyboard, the one of greater depth has an entry before an entry of
\* the other.
C5_DeeperSiblingFirst ==
    drawn =>
        \A w1 \in WidgetNodes, w2 \in WidgetNodes :
            /\ Siblings(w1, w2) /\ Touched(w1) /\ Touched(w2)
            /\ ~Captured(w1) /\ ~Captured(w2)
            /\ nodes[w1].container.depth > nodes[w2].container.depth
            /\ WidgetEntries(w1) # {} /\ WidgetEntries(w2) # {}
            => \E i \in WidgetEntries(w1), j \in WidgetEntries(w2) : i < j

\* C6: the widget holding the mouse or the keyboard has an entry in the depth
\* order after an entry of each of its siblings that holds neither, whatever
\* the depths and the order of the parent's edges.
C6_CapturedSiblingLast ==
    drawn =>
        \A c \in WidgetNodes, s \in WidgetNodes :
            /\ Siblings(c, s) /\ Captured(c) /\ ~Captured(s)
            /\ WidgetEntries(c) # {} /\ WidgetEntries(s) # {}
            => \E i \in WidgetEntries(s), j \in WidgetEntries(c) : i < j

\* ------------------------------------------------------ floating widgets
IsFloating(n) == IsWidget(nodes[n]) /\ nodes[n].container.maybe_floating # None

FloatingNodes == {n \in NodeSet(nodes) : IsFloating(n)}

\* time_last_clicked of the floating widget n.
TimeLastClicked(n) == Unwrap(nodes[n].container.maybe_floating)

\* The floating widgets and everything below them along Child edges.
FloatingSubtrees == Closure(ChildEdges, FloatingNodes)

\* What the root reaches along Child edges without passing a floating widget.
NonFloatingTree == Closure(ChildEdges, {root}) \ FloatingSubtrees

\* The position of the first Widget entry of n in the depth order.
FirstVisit(n) == CHOOSE i \in WidgetEntries(n) : \A j \in WidgetEntries(n) : i <= j

\* C7: every entry of a floating widget or of a node below one comes after
\* every entry of the non-floating tree under the root.
C7_FloatingAfterTree ==
    drawn =>
        \A i \in 1..Len(depth_order), j \in 1..Len(depth_order) :
            /\ EntryNode(depth_order[i]) \in FloatingSubtrees
            /\ EntryNode(depth_order[j]) \in NonFloatingTree
            => j < i

\* C8 as stated: any two floating widgets of the depth order, nested in
\* another floating widget or not, are first visited in the order of their
\* time_last_clicked.
C8_FloatingByTime ==
    drawn =>
        \A f \in FloatingNodes, g \in FloatingNodes :
            /\ WidgetEntries(f) # {} /\ WidgetEntries(g) # {}
            /\ TimeLastClicked(f) < TimeLastClicked(g)
            => FirstVisit(f) < FirstVisit(g)

\* The floating widgets the visit from the root has put in the deque.
DeferredFromRoot ==
    LET q == main_pass(last_call.mouse, last_call.keyboard, Graph).floating_deque
    IN {q[i] : i \in 1..Len(q)}

\* C8, amended: the floating widgets deferred by the visit from the root are
\* first visited in the order of their time_last_clicked, and before the
\* first visit of every floating widget deferred only later, by the visit of
\* a floating widget.
C8_RootFloatingByTime ==
    drawn =>
        \A f \in DeferredFromRoot, g \in FloatingNodes :
            /\ WidgetEntries(f) # {} /\ WidgetEntries(g) # {}
            /\ \/ g \in DeferredFromRoot /\ TimeLastClicked(f) < TimeLastClicked(g)
               \/ g \notin DeferredFromRoot
            => FirstVisit(f) < FirstVisit(g)

\* A frame with two floating widgets of different times deferred by the root
\* and a third, older than both, deferred by the visit of one of them.
C8_Witness ==
    /\ drawn
    /\ \E f \in DeferredFromRoot, g \in DeferredFromRoot, h \in FloatingNodes :
          /\ h \notin DeferredFromRoot
          /\ TimeLastClicked(f) < TimeLastClicked(g)
          /\ TimeLastClicked(h) < TimeLastClicked(g)
          /\ FirstVisit(f) < FirstVisit(g) /\ FirstVisit(g) < FirstVisit(h)

\* ------------------------------------------------ the edges a call leaves
\* In a pre_update_cache step: the node of the call's widget after the call.
NodeAfter == Unwrap(to_node_index(last_call'.w.idx, index_map'))

\* pre_update_cache's Child edge is rejected: it would close a cycle, which
\* for a widget that had no node can only be the loop on itself.
ChildRejected ==
    \/ ChildWouldCycle
    \/ NodeBefore = None /\ last_call'.w.maybe_parent_idx = Some(last_call'.w.idx)

\* C11: after a pre_update_cache call for W whose Child edge is not rejected,
\* W has exactly one incoming Child edge, and it comes from the node of the
\* parent the call names, or from the root when the call names none.  A parent
\* id that had no node has got a Placeholder node, registered under the id.
C11_ParentIsTheGivenOne ==
    [][IsPreUpdate /\ ~ChildRejected =>
        LET parent == last_call'.w.maybe_parent_idx
            p == IF parent = None THEN Some(root)
                 ELSE to_node_index(Unwrap(parent), index_map')
        IN /\ p # None
           /\ InDegree(edges', NodeAfter, "Child") = 1
           /\ Sources(edges', NodeAfter, "Child") = p
           /\ ParentBefore = None =>
                 /\ Unwrap(p) \notin NodeSet(nodes)
                 /\ nodes'[Unwrap(p)] = PlaceholderNode]_vars

\* C11 witness: the last call named as parent an id whose node is a
\* Placeholder made for it, and the widget, which is not a child of the
\* root, hangs below that node.
C11_Witness ==
    /\ last_call.op = "pre_update_cache" /\ panic = None /\ placeholders = {}
    /\ last_call.w.maybe_parent_idx # None
    /\ LET n == Unwrap(to_node_index(last_call.w.idx, index_map))
           p == Unwrap(to_node_index(Unwrap(last_call.w.maybe_parent_idx), index_map))
       IN /\ nodes[p] = PlaceholderNode
          /\ Sources(edges, n, "Child") = {p}
          /\ calls = MaxCalls

\* pre_update_cache's RelativePosition edge is rejected: it would close a
\* cycle, which for a widget that had no node can only be the loop on itself.
RelativeRejected ==
    \/ RelativeWouldCycle
    \/ /\ NodeBefore = None
       /\ last_call'.w.maybe_positioned_relatively_idx = Some(last_call'.w.idx)

IsElement ==
    /\ last_call'.op \in {"element", "element_if_changed"}
    /\ last_call'.result # None

\* The nodes a visit goes past: the root and the widgets touched in the cycle.
Passable == {n \in NodeSet(nodes) : n = root \/ Touched(n)}

\* What the root reaches along edges that leave passable nodes only.
ReachedThroughTouched ==
    Closure(SelectSeq(edges, LAMBDA e : e.a \in Passable), {root})

\* C13: every entry of the depth order an element call computes belongs to
\* a widget touched in the cycle that the root reaches through the root and
\* touched widgets alone: an untouched widget has no entry, and nothing is
\* visited through it or through a Placeholder.
C13_UntouchedEndsBranch ==
    [][IsElement =>
        \A i \in 1..Len(depth_order') :
            LET n == EntryNode(depth_order'[i])
            IN n # root /\ Touched(n) /\ n \in ReachedThroughTouched]_vars

\* C13 witness: after the second element call a widget is still marked
\* touched: it was set in the cycle, but below a widget that was not.
C13_Witness ==
    /\ last_call.op = "element" /\ frames = 2
    /\ \E w \in WidgetNodes, p \in WidgetNodes :
          /\ Touched(w) /\ WidgetEntries(w) = {}
          /\ Sources(edges, w, "Child") = {p}
          /\ Sources(edges, p, "Child") = {root}
          /\ ~Touched(p) /\ nodes[p].container.was_previously_updated

RECURSIVE ElementsIn(_)
\* The Elements layered in a sequence of Elements, at any depth of cropping.
ElementsIn(layers) ==
    UNION {IF DOMAIN layers[i] = {"crop", "layers"}
           THEN {layers[i]} \cup ElementsIn(layers[i].layers)
           ELSE {layers[i]} : i \in 1..Len(layers)}

\* The nodes with a Widget entry in the depth order of the step's element call.
VisitedByElement ==
    {depth_order'[i][2] : i \in {j \in 1..Len(depth_order') :
                                    depth_order'[j][1] = "Widget"}}

\* C14: an element call clears is_updated of every widget it visits; only a
\* pre_update_cache call for a widget sets its is_updated; and a widget whose
\* is_updated is clear at an element call has no entry in the call's depth
\* order and no Element in its result, while the call leaves every node in
\* place and the edges as they were.
C14_UnsetWidgetIsNotDrawn ==
    [][/\ IsElement => \A n \in VisitedByElement : ~nodes'[n].container.is_updated
       /\ \A n \in WidgetNodes :
             ~Touched(n) /\ nodes'[n].container.is_updated =>
                 IsPreUpdate /\ NodeBefore = Some(n)
       /\ IsElement =>
             /\ edges' = edges /\ index_map' = index_map
             /\ \A n \in NodeSet(nodes) : nodes'[n].tag = nodes[n].tag
             /\ \A n \in WidgetNodes :
                   ~Touched(n) =>
                       /\ \A i \in 1..Len(depth_order') : depth_order'[i][2] # n
                       /\ nodes[n].container.maybe_element
                              \cap ElementsIn(Unwrap(last_call'.result)) = {}]_vars

\* C14 witness: an element call has just returned an Element with no layer
\* while a widget that an earlier call drew, and that has not been set since,
\* still hangs below the root with its Element cached.
C14_Witness ==
    /\ last_call.op = "element" /\ last_call.result = Some(<<>>)
    /\ \E w \in WidgetNodes :
          /\ nodes[w].container.maybe_element # None
          /\ nodes[w].container.was_previously_updated /\ ~Touched(w)
          /\ Sources(edges, w, "Child") = {root}
          /\ WidgetEntries(w) = {}

ElementCalls == {"element", "element_if_changed"}

\* C15, a case of it: when element_if_changed is called right after a call
\* of element or element_if_changed that itself came right after such a
\* call, nothing was set and no Element was handed in during the cycle
\* before or since, and it returns None.
C15_ChangeIsReportedOnce ==
    [][/\ last_call'.op = "element_if_changed"
       /\ last_call.op \in ElementCalls
       /\ last_call.after \in ElementCalls
       => last_call'.result = None]_vars

\* ------------------------------------------------------------- scrollbars
IsScrollable(n) == IsWidget(nodes[n]) /\ nodes[n].container.maybe_scrolling # None

\* The positions of depth_order that hold the Scrollbar entry of node n.
ScrollbarEntries(n) ==
    {i \in 1..Len(depth_order) : depth_order[i] = VisitScrollbar(n)}

\* C16: a touched scrollable widget S of the depth order has exactly one
\* Scrollbar(S) entry; it comes after Widget(S) and after the entries of the
\* non-floating widgets below S, and before the entries of the siblings of S
\* visited after S.  A widget that is not scrollable has no Scrollbar entry.
C16_OneScrollbarAfterSubtree ==
    drawn =>
        \A s \in WidgetNodes :
            /\ ~IsScrollable(s) => ScrollbarEntries(s) = {}
            /\ IsScrollable(s) /\ Touched(s) /\ WidgetEntries(s) # {} =>
                  /\ Cardinality(ScrollbarEntries(s)) = 1
                  /\ \A b \in ScrollbarEntries(s) :
                        /\ \A i \in WidgetEntries(s) : i < b
                        /\ \A d \in WidgetNodes \ FloatingSubtrees :
                              IsAncestor(s, d) =>
                                  \A i \in WidgetEntries(d) : i < b
                        /\ \A x \in WidgetNodes :
                              /\ Siblings(s, x) /\ WidgetEntries(x) # {}
                              /\ FirstVisit(s) < FirstVisit(x)
                              => b < FirstVisit(x)

\* ------------------------------------------------- the end of the pass
\* The floating widgets the pass has met: those with an edge from the root or
\* from a widget of the depth order.
Deferred ==
    {f \in FloatingNodes :
        \E i \in 1..Len(edges) :
            /\ edges[i].b = f
            /\ edges[i].a = root \/ WidgetEntries(edges[i].a) # {}}

\* C17: the graph update_depth_order walks has no cycle, so its recursion
\* along the edges ends; it leaves floating_deque empty, and every touched
\* floating widget it has met, below a floating widget or not, has its entry
\* in the depth order.
C17_PassEndsWithEmptyDeque ==
    /\ ~HasCycle(edges)
    /\ drawn =>
          /\ floating_deque = <<>>
          /\ \A f \in Deferred : Touched(f) => WidgetEntries(f) # {}

\* C17 witness: a frame where a floating child of the root and a floating
\* child of that floating widget are both in the depth order.
C17_Witness ==
    /\ drawn /\ floating_deque = <<>>
    /\ \E f \in FloatingNodes, g \in FloatingNodes :
          /\ Sources(edges, f, "Child") = {root}
          /\ Sources(edges, g, "Child") = {f}
          /\ WidgetEntries(f) # {} /\ WidgetEntries(g) # {}

\* ---------------------------------------------------- the scroll offset
IsScrollOffset == last_call.op = "scroll_offset"

\* The node of the index the last scroll_offset call asked about, if any.
Asked == to_node_index(last_call.idx, index_map)

\* The widgets above node n along Child edges that are scrollable.
ScrollableAncestors(n) ==
    {a \in 1..Len(nodes) : IsAncestor(a, n) /\ IsScrollable(a)}

\* C18: a call of scroll_offset leaves the graph as it was; for a widget
\* with no scrollable widget above it along Child edges it returns [0, 0];
\* and a call that follows a call for the same index, with no operation in
\* between, returns what that call returned.
C18_ZeroWithoutScrollableAncestor ==
    [][IsScrollOffset' =>
          /\ UNCHANGED <<nodes, edges, index_map, depth_order, floating_deque,
                         stderr, panic, placeholders>>
          /\ \A n \in Asked' :
                 IsWidget(nodes[n]) /\ ScrollableAncestors(n) = {}
                     => last_call'.result = <<Zero, Zero>>
          /\ IsScrollOffset /\ last_call.idx = last_call'.idx
                 => last_call'.result = last_call.result]_vars

\* C18 witness: the offset [0, 0] returned for a widget whose parent is a
\* widget that does not scroll, in a graph that has a scrollable widget.
C18_Witness ==
    /\ IsScrollOffset /\ last_call.result = <<Zero, Zero>>
    /\ \E n \in Asked :
          /\ IsWidget(nodes[n]) /\ ScrollableAncestors(n) = {}
          /\ \E a \in 1..Len(nodes) :
                 Sources(edges, n, "Child") = {a} /\ IsWidget(nodes[a])
    /\ \E s \in 1..Len(nodes) : IsScrollable(s)

\* ------------------------------------------- the sum of the contributions
\* What the vertical bar of scrollable widget a contributes:
\* (offset / max_offset) * (total_length - height of the kid area).
VerticalContribution(a) ==
    LET v == Unwrap(nodes[a].container.maybe_scrolling).maybe_vertical
    IN IF v = None THEN Zero
       ELSE Mul(Div(Unwrap(v).offset, Unwrap(v).max_offset),
                Sub(Unwrap(v).total_length, nodes[a].container.kid_area.dim[2]))

\* The same of its horizontal bar, with the width of the kid area.
HorizontalContribution(a) ==
    LET h == Unwrap(nodes[a].container.maybe_scrolling).maybe_horizontal
    IN IF h = None THEN Zero
       ELSE Mul(Div(Unwrap(h).offset, Unwrap(h).max_offset),
                Sub(Unwrap(h).total_length, nodes[a].container.kid_area.dim[1]))

RECURSIVE SumVertical(_)
SumVertical(S) ==
    IF S = {} THEN Zero
    ELSE LET a == CHOOSE x \in S : TRUE
         IN Add(VerticalContribution(a), SumVertical(S \ {a}))

RECURSIVE SumHorizontal(_)
SumHorizontal(S) ==
    IF S = {} THEN Zero
    ELSE LET a == CHOOSE x \in S : TRUE
         IN Add(HorizontalContribution(a), SumHorizontal(S \ {a}))

\* The offset [x, y] made of the contributions of the widgets of S: the
\* vertical ones added to y, the horizontal ones taken from x.
OffsetOver(S) == <<Sub(Zero, SumHorizontal(S)), SumVertical(S)>>

RelativeEdges == SelectSeq(edges, LAMBDA e : e.edge = "RelativePosition")

\* Node n is positioned, directly or through a chain of RelativePosition
\* edges, relative to a node that has the Child parent n has.
PositionedOnSibling(n) ==
    /\ Sources(edges, n, "Child") # {}
    /\ \E t \in 1..Len(nodes) :
          /\ t # n /\ Reaches(RelativeEdges, t, n)
          /\ Sources(edges, t, "Child") = Sources(edges, n, "Child")

\* The nodes from n upwards along Child edges, n included.
UpFrom(n) == {n} \cup {a \in 1..Len(nodes) : IsAncestor(a, n)}

\* The scrollable widgets above n that the walk from n gets to: those with
\* no node positioned on a sibling between n and them.
ScrollableAncestorsWalked(n) ==
    {a \in ScrollableAncestors(n) :
        \A m \in UpFrom(n) : IsAncestor(a, m) => ~PositionedOnSibling(m)}

\* C19 as claimed: for a widget with no RelativePosition edge to it,
\* scroll_offset returns the sum of the contributions of every scrollable
\* widget above it along Child edges.
C19_SumOverEveryScrollableAncestor ==
    IsScrollOffset =>
        \A n \in Asked :
            IsWidget(nodes[n]) /\ Sources(edges, n, "RelativePosition") = {}
                => last_call.result = OffsetOver(ScrollableAncestors(n))

\* C19 amended: scroll_offset returns for a widget the sum of the
\* contributions of the scrollable widgets above it up to the first node on
\* the way, the widget included, that is positioned relative to a node with
\* the same parent: of every scrollable widget above it when there is no
\* such node; and below a single scrollable parent whose vertical bar has
\* offset 0.5 of max 1.0, total length 200 and kid-area height 100 the
\* vertical offset is 50.
C19_SumOverScrollableAncestorsWalked ==
    IsScrollOffset =>
        \A n \in Asked :
            IsWidget(nodes[n]) =>
                /\ last_call.result = OffsetOver(ScrollableAncestorsWalked(n))
                /\ \A p \in ScrollableAncestors(n) :
                       /\ ScrollableAncestors(n) = {p}
                       /\ Sources(edges, n, "Child") = {p}
                       /\ ~PositionedOnSibling(n)
                       /\ Unwrap(nodes[p].container.maybe_scrolling).maybe_vertical
                             = Some(ScrollBar(Scalar(1, 2), Scalar(1, 1), Scalar(200, 1)))
                       /\ nodes[p].container.kid_area.dim[2] = Scalar(100, 1)
                       => last_call.result[2] = Scalar(50, 1)

\* C19 witness: the offset of a widget below two scrollable widgets, one
\* above the other, with nothing positioned on a sibling: twice the
\* contributions of one.
C19_Witness ==
    /\ IsScrollOffset
    /\ \E n \in Asked :
          /\ IsWidget(nodes[n])
          /\ Cardinality(ScrollableAncestors(n)) = 2
          /\ ScrollableAncestorsWalked(n) = ScrollableAncestors(n)
    /\ last_call.result = <<Scalar(0 - 200, 1), Scalar(100, 1)>>

\* ------------------------------------------------------------ the lookups
\* The index the last lookup asked about has no Widget node: it has no node
\* or its node is a Placeholder.
NoWidgetAsked == \A n \in Asked : nodes[n].tag = "Placeholder"

IsPostUpdate == last_call.op = "post_update_cache"

\* The node of the index the last post_update_cache call was made for, if
\* it has one.
Posted == to_node_index(last_call.w.idx, index_map)

\* C21: post_update_cache for an index whose node is a Widget leaves in its
\* container the state it was given; a new Element given with it becomes
\* the cached one and element_has_changed becomes true; with no new Element
\* the cached Element and element_has_changed stay as they were; and no
\* other node changes.
C21_PostStoresPayload ==
    [][IsPostUpdate' =>
          \A n \in Posted' :
              n \in 1..Len(nodes) /\ IsWidget(nodes[n]) =>
                  /\ IsWidget(nodes'[n])
                  /\ nodes'[n].container.maybe_state = Some(last_call'.w.state)
                  /\ last_call'.w.maybe_element # None =>
                         /\ nodes'[n].container.maybe_element
                               = last_call'.w.maybe_element
                         /\ nodes'[n].container.element_has_changed
                  /\ last_call'.w.maybe_element = None =>
                         /\ nodes'[n].container.maybe_element
                               = nodes[n].container.maybe_element
                         /\ nodes'[n].container.element_has_changed
                               = nodes[n].container.element_has_changed
                  /\ Len(nodes') = Len(nodes)
                  /\ \A m \in 1..Len(nodes) : m # n => nodes'[m] = nodes[m]]_vars

\* C21 witness: a call with no new Element has replaced the state of a
\* widget and left the Element an earlier call had handed in.
C21_Witness ==
    /\ IsPostUpdate /\ last_call.w.maybe_element = None
    /\ last_call.w.state = "State2"
    /\ \E n \in Posted :
          /\ IsWidget(nodes[n])
          /\ nodes[n].container.maybe_state = Some("State2")
          /\ nodes[n].container.maybe_element # None
          /\ nodes[n].container.element_has_changed

\* C22: post_update_cache for an index that has no Widget node, because
\* pre_update_cache was not called for it, ends in a panic.
C22_PostWithoutPreIsFatal ==
    [][IsPostUpdate' /\ (\A n \in Posted' : ~IsWidget(nodes[n]))
          => panic' # None]_vars

\* ------------------------------------------------------------ the pick
IsPick == last_call.op = "pick_widget"

\* The positions of the depth order whose entry the point of the last
\* pick_widget call hits: a Widget entry when the point is over the
\* widget's rectangle, a Scrollbar entry when it is over the scroll handle.
HitEntries ==
    {i \in 1..Len(depth_order) :
        \/ depth_order[i][1] = "Widget"
              /\ EntryNode(depth_order[i]) \in last_call.over_rect
        \/ depth_order[i][1] = "Scrollbar"
              /\ EntryNode(depth_order[i]) \in last_call.over_handle}

\* C23: pick_widget returns None when the point hits no entry of the depth
\* order, and otherwise an index of the widget that owns the last entry
\* hit.
C23_LastHitEntryWins ==
    IsPick =>
        /\ HitEntries = {} => last_call.result = None
        /\ \A i \in HitEntries :
               (\A j \in HitEntries : j <= i) =>
                   /\ last_call.result # None
                   /\ \A idx \in last_call.result :
                          to_node_index(idx, index_map)
                              = Some(EntryNode(depth_order[i]))

\* C23 witness: the point is over two widgets and over the scroll handle of
\* neither, and the widget later in the order is returned.
C23_Witness ==
    /\ IsPick /\ last_call.result # None
    /\ \E i \in HitEntries, j \in HitEntries :
          /\ i < j
          /\ EntryNode(depth_order[i]) # EntryNode(depth_order[j])
          /\ \A k \in HitEntries : k <= j
          /\ depth_order[j][1] = "Widget"
          /\ last_call.result
                = {from_idx(EntryNode(depth_order[j]), index_map)}

\* ------------------------------------------------- the primitives drawn
IsDraw == last_call.op = "draw"

\* The positions of the primitives drawn for node n by the last draw.
PrimitivesOf(n) ==
    {i \in 1..Len(last_call.primitives) : last_call.primitives[i].idx = n}

\* Two rectangles share no point.
Disjoint(a, b) ==
    \/ a.x.end < b.x.start \/ b.x.end < a.x.start
    \/ a.y.end < b.y.start \/ b.y.end < a.y.start

\* The widgets above n along Child edges that crop their kids.
CroppingAncestors(n) ==
    {a \in WidgetNodes : IsAncestor(a, n) /\ last_call.containers[a].crop_kids}

\* No point of the rectangle of n lies in the kid areas of all the cropping
\* widgets above n.
CroppedAway(n) ==
    LET rects == {last_call.containers[n].rect}
                    \cup {last_call.containers[a].kid_area.rect :
                             a \in CroppingAncestors(n)}
    IN \/ \E r \in rects, o \in rects : r.x.start > o.x.end
       \/ \E r \in rects, o \in rects : r.y.start > o.y.end

\* C24: the draw hands out no primitive for a widget whose rectangle shares
\* no point with the window, nor for one whose rectangle is cropped away
\* altogether by the kid areas of the cropping widgets above it, whatever
\* its kind.
C24_NothingDrawnOutOfSight ==
    IsDraw =>
        \A n \in WidgetNodes :
            \/ Disjoint(last_call.containers[n].rect, last_call.window_rect)
            \/ CroppedAway(n)
            => PrimitivesOf(n) = {}

\* C24 witness: a draw with a primitive, in which a widget of a kind that
\* is drawn, with its entry in the depth order and its rectangle in the
\* window, is cropped away by a widget above it and has no primitive.
C24_Witness ==
    /\ IsDraw /\ last_call.primitives # <<>>
    /\ \E n \in WidgetNodes :
          /\ WidgetEntries(n) # {}
          /\ last_call.containers[n].kind = "FramedRectangle"
          /\ ~Disjoint(last_call.containers[n].rect, last_call.window_rect)
          /\ CroppedAway(n)
          /\ PrimitivesOf(n) = {}

\* The cropping widget nearest above n.
NearestCroppingAncestor(n) ==
    CHOOSE a \in CroppingAncestors(n) :
        \A b \in CroppingAncestors(n) \ {a} : IsAncestor(b, a)

RECURSIVE ClipFor(_)
\* The clip of the kids of the cropping widget nearest above n: its kid area
\* within the clip it lies in itself, a zero rectangle when they share
\* nothing; the window when no widget above n crops its kids.
ClipFor(n) ==
    IF CroppingAncestors(n) = {} THEN last_call.window_rect
    ELSE LET a == NearestCroppingAncestor(n)
             o == overlap(last_call.containers[a].kid_area.rect, ClipFor(a))
         IN IF o = None THEN from_xy_dim(<<0, 0>>, <<0, 0>>) ELSE Unwrap(o)

\* C25: the scizzor of every primitive drawn for a widget is the clip of
\* the nearest widget above it that crops its kids, and the window when
\* there is none; so a widget that crops its kids is drawn within the clip
\* around it, not within its own kid area.
C25_ScizzorOfNearestCroppingAncestor ==
    IsDraw =>
        \A i \in 1..Len(last_call.primitives) :
            last_call.primitives[i].scizzor = ClipFor(last_call.primitives[i].idx)

\* ------------------------------------------------------------------ events
IsPush == last_call.op = "push_event"
Pushed(event) == IsPush /\ last_call.event = event

\* C26: all_events returns every event pushed so far, in the order of the
\* pushes; a push stores the event it is handed and, immediately after it,
\* the click or drag event that event gave rise to (if any), and nothing else.
C26_AllEventsInOrder ==
    [][/\ IsPush' =>
            /\ Len(events') \in {Len(events) + 1, Len(events) + 2}
            /\ SubSeq(events', 1, Len(events) + 1) = Append(events, last_call'.event)
            /\ RawEvents' = Append(RawEvents, last_call'.event)
            /\ \A i \in (Len(events) + 2)..Len(events') :
                  /\ events'[i].tag \in {"MouseClick", "MouseDrag"}
                  /\ last_call'.event.input.kind \in {"Release", "MouseCursor"}
       /\ last_call'.op = "all_events" =>
            /\ last_call'.result = events
            /\ events' = events]_vars

\* A raw event is followed by the drag event it gave rise to, and all_events
\* hands both out with what was pushed after them.
C26_Witness ==
    /\ last_call.op = "all_events"
    /\ Len(last_call.result) > 3
    /\ last_call.result[1].tag = "Raw"
    /\ last_call.result[2].tag = "Raw"
    /\ last_call.result[3].tag = "MouseDrag"
    /\ last_call.result[4].tag = "Raw"

\* At most the drag threshold apart.
Within(a, b) ==
    (a[1] - b[1]) * (a[1] - b[1]) + (a[2] - b[2]) * (a[2] - b[2]) <= 16

\* C27: a press records the position the cursor has at that moment, nothing
\* but a press or release of that button changes the record, and a release
\* at a distance of at most 4.0 from it stores, after the raw event, exactly
\* one MouseClick at the recorded position and no MouseDrag.
C27_ClickWithinThreshold ==
    [][\A b \in MouseButtons :
          /\ Pushed(Raw(Press(b)))' => mouse_buttons'[b] = Some(mouse_position)
          /\ IsPush' /\ last_call'.event \notin {Raw(Press(b)), Raw(Release(b))}
                => mouse_buttons'[b] = mouse_buttons[b]
          /\ \A point \in mouse_buttons[b] :
                Pushed(Raw(Release(b)))' /\ Within(point, mouse_position)
                   => events' = events \o <<Raw(Release(b)),
                                            MouseClickEvent(b, point)>>]_vars

\* A button was released within the threshold, away from where it was pressed.
C27_Witness ==
    /\ \E b \in MouseButtons : Pushed(Raw(Release(b)))
    /\ events[Len(events)].tag = "MouseClick"
    /\ events[Len(events)].location # mouse_position
    /\ \A i \in 1..Len(events) : events[i].tag # "MouseDrag"

\* More than the drag threshold apart.
Far(a, b) == ~Within(a, b)

\* C28: while a button is held, a move of the cursor to a point farther than
\* the threshold from where the button was pressed stores a MouseDrag in
\* progress from the press position to the new position; a release farther
\* than the threshold stores a finished MouseDrag from the same start; and
\* mouse_drag(button) returns the last drag event stored for the button.
C28_DragWhileHeld ==
    [][/\ \A b \in MouseButtons : \A point \in mouse_buttons[b] :
             /\ \A to \in Points :
                   Pushed(Raw(MouseCursor(to)))' /\ Far(point, to)
                      => events' = events \o <<Raw(MouseCursor(to)),
                                               MouseDragEvent(b, point, to, TRUE)>>
             /\ Pushed(Raw(Release(b)))' /\ Far(point, mouse_position)
                   => events' = events \o <<Raw(Release(b)),
                             MouseDragEvent(b, point, mouse_position, FALSE)>>
       /\ last_call'.op = "mouse_drag" =>
             \A b \in last_call'.button :
                LET stored == {i \in 1..Len(events) :
                                  events[i].tag = "MouseDrag" /\ events[i].button = b}
                IN  last_call'.result =
                       IF stored = {} THEN None
                       ELSE Some(events[CHOOSE i \in stored :
                                           \A j \in stored : j <= i])]_vars

\* The scroll steps pushed so far.
ScrollsPushed ==
    SelectSeq(events, LAMBDA evt : evt.tag = "Raw" /\ evt.input.kind = "MouseScroll")

RECURSIVE SumOfScrolls(_, _)
SumOfScrolls(n, coordinate) ==
    IF n = 0 THEN 0
    ELSE SumOfScrolls(n - 1, coordinate) + ScrollsPushed[n].input.xy[coordinate]

\* C29: scroll() returns None when no MouseScroll has been pushed, and
\* otherwise one ScrollEvent whose x and y are the sums of the x and y of
\* every MouseScroll pushed.
C29_ScrollIsTheSum ==
    last_call.op = "scroll" =>
        last_call.result =
            IF ScrollsPushed = <<>> THEN None
            ELSE Some(ScrollEvent(SumOfScrolls(Len(ScrollsPushed), 1),
                                  SumOfScrolls(Len(ScrollsPushed), 2)))

\* scroll() was asked after scroll steps of both kinds were pushed.
C29_Witness ==
    /\ last_call.op = "scroll"
    /\ Len(ScrollsPushed) > 2
    /\ \E i, j \in 1..Len(ScrollsPushed) :
          ScrollsPushed[i].input.xy # ScrollsPushed[j].input.xy

\* C30: the traversal reaches a widget only from its Child-edge parent: the
\* first entry of the depth order is a child of the root, and every later
\* entry is a child of the widget visited just before it, of one of that
\* widget's ancestors, or of the root; so a widget positioned relative to P
\* but parented elsewhere has no entry in the visit of P.
C30_DescendsAlongChildEdgesOnly ==
    drawn /\ floating_deque = <<>> =>
        \A i \in 1..Len(depth_order) :
            depth_order[i][1] = "Widget" =>
                \E p \in Sources(edges, EntryNode(depth_order[i]), "Child") :
                    \/ p = root
                    \/ /\ i > 1
                       /\ \/ p = EntryNode(depth_order[i - 1])
                          \/ IsAncestor(p, EntryNode(depth_order[i - 1]))

\* C31: a depth order holds at most one Widget entry and at most one
\* Scrollbar entry of each node, whatever edges lead to the node.
C31_OneEntryPerNode ==
    drawn =>
        \A n \in NodeSet(nodes) :
            /\ Cardinality(WidgetEntries(n)) <= 1
            /\ Cardinality(ScrollbarEntries(n)) <= 1

\* The lowest node from n upwards that is positioned on a sibling, if any.
WalkEndsAt(n) ==
    {m \in UpFrom(n) :
        /\ PositionedOnSibling(m)
        /\ \A k \in UpFrom(n) : IsAncestor(m, k) => ~PositionedOnSibling(k)}

\* C32: when the widget asked about, or an ancestor the walk has reached,
\* is positioned (directly or through a chain of RelativePosition edges)
\* relative to a node with the same Child parent P, scroll_offset returns
\* the offset gathered up to that node: P and the widgets above P add
\* nothing, and a widget itself positioned on a sibling gets [0, 0].
C32_ReturnsAtNodePositionedOnSibling ==
    IsScrollOffset =>
        \A n \in Asked :
            /\ PositionedOnSibling(n) => last_call.result = <<Zero, Zero>>
            /\ \A m \in WalkEndsAt(n) :
                  last_call.result =
                      OffsetOver({a \in ScrollableAncestors(n) :
                                     a = m \/ IsAncestor(m, a)})

\* scroll_offset was asked about a widget that is positioned on a sibling
\* below a scrollable parent with a scroll offset of its own.
C32_Witness ==
    /\ IsScrollOffset
    /\ \E n \in Asked :
          /\ PositionedOnSibling(n)
          /\ \E p \in Sources(edges, n, "Child") :
                IsScrollable(p) /\ VerticalContribution(p) # Zero
          /\ last_call.result = <<Zero, Zero>>

\* The same about a widget below a scrollable widget that is positioned on
\* a sibling: the offset of that widget alone is returned.
C32_WitnessAbove ==
    /\ IsScrollOffset
    /\ \E n \in Asked : \E m \in WalkEndsAt(n) :
          /\ m # n
          /\ IsScrollable(m)
          /\ ScrollableAncestors(n) # {m}
          /\ last_call.result # <<Zero, Zero>>

\* C33 as claimed: the vertical offsets of the scrollable widgets walked
\* lower y and their horizontal offsets lower x.
C33_OffsetsDecreaseYAndX ==
    IsScrollOffset =>
        \A n \in Asked :
            /\ SumVertical(ScrollableAncestorsWalked(n))[1] > 0
                  => last_call.result[2][1] < 0
            /\ SumHorizontal(ScrollableAncestorsWalked(n))[1] > 0
                  => last_call.result[1][1] < 0

\* C33, amended: the vertical offsets of the scrollable widgets walked are
\* added to y (y grows by their sum) and their horizontal offsets are taken
\* from x (x falls by their sum).
C33_VerticalIncreasesYHorizontalDecreasesX ==
    IsScrollOffset =>
        \A n \in Asked :
            /\ last_call.result[2] = SumVertical(ScrollableAncestorsWalked(n))
            /\ last_call.result[1] =
                  Sub(Zero, SumHorizontal(ScrollableAncestorsWalked(n)))
            /\ SumVertical(ScrollableAncestorsWalked(n))[1] > 0
                  => last_call.result[2][1] > 0
            /\ SumHorizontal(ScrollableAncestorsWalked(n))[1] > 0
                  => last_call.result[1][1] < 0

\* scroll_offset was asked about a widget below two scrollable widgets and
\* returned a positive y and a negative x.
C33_Witness ==
    /\ IsScrollOffset
    /\ \E n \in Asked :
          /\ Cardinality(ScrollableAncestorsWalked(n)) > 1
          /\ last_call.result[2][1] > 0
          /\ last_call.result[1][1] < 0

\* C34: in every graph reachable through add_placeholder and
\* pre_update_cache, the walk of scroll_offset from any node ends: the walk
\* up the Child parents and, at each node of it, the walk along the
\* RelativePosition edges reach a node without such an incoming edge (or
\* return) within one pass per node of the graph.
C34_ScrollOffsetTerminates ==
    /\ \A n \in NodeSet(nodes) :
          child_edge_traversal_ends(Graph, n, Len(nodes) + 1)
    /\ \A idx \in Indices : scroll_offset_returns(Graph, idx)

\* scroll_offset returned for a widget whose parent is not the root and
\* that ends a chain of two RelativePosition edges.
C34_Witness ==
    /\ IsScrollOffset
    /\ \E n \in Asked :
          /\ Sources(edges, n, "Child") \cap WidgetNodes # {}
          /\ \E t \in Sources(edges, n, "RelativePosition") :
                Sources(edges, t, "RelativePosition") # {}
          /\ stderr # <<>>

\* C35: pre_update_cache for an index whose node holds a Widget writes the
\* kind, depth, kid area, floating and scrolling data of the call into the
\* container and sets is_updated; the state, the cached Element,
\* element_has_changed and was_previously_updated stay as they were, and
\* so does every other node.
C35_PreUpdateKeepsWhatUpdatesLeft ==
    [][IsPreUpdate /\ panic' = None =>
          \A n \in NodeBefore :
              /\ IsWidget(nodes[n]) =>
                    nodes'[n] = WidgetNode(
                       [maybe_state |-> nodes[n].container.maybe_state,
                        maybe_element |-> nodes[n].container.maybe_element,
                        element_has_changed |-> nodes[n].container.element_has_changed,
                        was_previously_updated |->
                            nodes[n].container.was_previously_updated,
                        kind |-> last_call'.w.kind,
                        depth |-> last_call'.w.depth,
                        kid_area |-> last_call'.w.kid_area,
                        maybe_floating |-> last_call'.w.maybe_floating,
                        maybe_scrolling |-> last_call'.w.maybe_scrolling,
                        is_updated |-> TRUE])
              /\ \A m \in NodeSet(nodes) \ {n} : nodes'[m] = nodes[m]]_vars

\* A widget that has a state and an Element and was part of the last frame
\* has been set again, with another depth and scroll state than it had when
\* it was created.
C35_Witness ==
    /\ last_call.op = "pre_update_cache"
    /\ \E n \in to_node_index(last_call.w.idx, index_map) :
          /\ IsWidget(nodes[n])
          /\ nodes[n].container.maybe_state # None
          /\ nodes[n].container.maybe_element # None
          /\ nodes[n].container.was_previously_updated
          /\ nodes[n].container.is_updated
          /\ nodes[n].container.depth = 2
          /\ nodes[n].container.maybe_scrolling # None

\* C36: a pre_update_cache call that panics with the kind mismatch leaves
\* the graph as it was before the call: the nodes, the edges (the Child
\* edge into the widget among them) and the index map.
C36_KindMismatchLeavesGraph ==
    [][IsPreUpdate /\ panic' = Some("different kind") =>
          /\ nodes' = nodes
          /\ edges' = edges
          /\ index_map' = index_map]_vars

\* ------------------------------------------------- the layers of a frame
RECURSIVE CroppedTo(_, _)
\* The Elements that lie, at any depth, inside a group cropped to the kid
\* area of s.
CroppedTo(layers, s) ==
    UNION {IF DOMAIN layers[i] = {"crop", "layers"}
           THEN IF layers[i].crop = s
                THEN ElementsIn(layers[i].layers)
                ELSE CroppedTo(layers[i].layers, s)
           ELSE {} : i \in 1..Len(layers)}

\* d is below s with no floating widget from s (excluded) down to d.
NonFloatingDescendant(s, d) ==
    /\ IsAncestor(s, d)
    /\ \A m \in FloatingNodes : IsAncestor(s, m) => m # d /\ ~IsAncestor(m, d)

\* C37: in the Element of a frame, the Element of every widget of the frame
\* that is a non-floating descendant of a scrollable widget S of the frame
\* lies inside the group cropped to the kid area of S, and so does the
\* cropped group of every scrollable widget among those descendants.
C37_DescendantsCroppedToScrollableAncestors ==
    last_call.op = "element" =>
        \A s \in WidgetNodes, d \in WidgetNodes :
            /\ IsScrollable(s) /\ WidgetEntries(s) # {}
            /\ WidgetEntries(d) # {}
            /\ NonFloatingDescendant(s, d)
            => /\ nodes[d].container.maybe_element
                     \subseteq CroppedTo(Unwrap(last_call.result), s)
               /\ IsScrollable(d) =>
                     \E g \in CroppedTo(Unwrap(last_call.result), s) :
                         DOMAIN g = {"crop", "layers"} /\ g.crop = d

RECURSIVE PaintOrder(_)
\* The Elements of a sequence of layers in the order they are painted, the
\* first beneath the rest: a cropped group is painted where it stands.
PaintOrder(layers) ==
    IF layers = <<>> THEN <<>>
    ELSE (IF DOMAIN Head(layers) = {"crop", "layers"}
          THEN PaintOrder(Head(layers).layers)
          ELSE <<Head(layers)>>) \o PaintOrder(Tail(layers))

\* The places of the Element e in a paint order.
PaintedAt(order, e) == {i \in 1..Len(order) : order[i] = e}

\* C38: in the Element of a frame, the widgets' Elements are layered in the
\* order of the widgets' entries in the depth order: when Widget(a) comes
\* before Widget(b) and both have a cached Element, a's Element is painted
\* before b's, beneath it.
C38_LayersFollowDepthOrder ==
    last_call.op = "element" =>
        LET order == PaintOrder(Unwrap(last_call.result))
        IN \A a \in WidgetNodes, b \in WidgetNodes :
              \A i \in WidgetEntries(a), j \in WidgetEntries(b) :
                 i < j =>
                    \A ea \in nodes[a].container.maybe_element,
                       eb \in nodes[b].container.maybe_element :
                          \A k \in PaintedAt(order, eb) :
                              \E l \in PaintedAt(order, ea) : l < k

\* Since button b was last pressed, a drag in progress has been stored for it.
DragInProgressSincePress(b) ==
    \E i \in 1..Len(events) :
        /\ events[i] = Raw(Press(b))
        /\ \A j \in (i + 1)..Len(events) : events[j] # Raw(Press(b))
        /\ \E j \in (i + 1)..Len(events) :
              /\ events[j].tag = "MouseDrag"
              /\ events[j].button = b
              /\ events[j].in_progress

\* C39: when a drag in progress has been stored for a button since its
\* press, the release of the button stores a finished MouseDrag for it (and
\* no MouseClick).
C39_DragInProgressIsClosed ==
    [][\A b \in MouseButtons :
          /\ Pushed(Raw(Release(b)))'
          /\ mouse_buttons[b] # None
          /\ DragInProgressSincePress(b)
          => /\ events'[Len(events')].tag = "MouseDrag"
             /\ events'[Len(events')].button = b
             /\ ~events'[Len(events')].in_progress]_vars

\* ------------------------------------------------------------ number dialer
IsGetNewState == last_call.op = "get_new_state"

\* C40: the state becomes Clicked only from Highlighted or Clicked, with the
\* left button Down; from Normal it stays Normal while the button is Down;
\* from Clicked it stays Clicked on the same element (the same value glyph
\* slot, at the height of the cursor) while the button is Down, over the
\* widget or not; and with the button Up it is Highlighted on the element
\* under the cursor, or Normal when the cursor is over none.
C40_ClickedOnlyThroughHighlighted ==
    [][IsGetNewState' =>
          LET left == last_call'.mouse.left
              over == last_call'.is_over_elem
          IN /\ dialer_state'.tag = "Clicked" =>
                   dialer_state.tag \in {"Highlighted", "Clicked"} /\ left = "Down"
             /\ dialer_state.tag = "Normal" /\ left = "Down" => dialer_state' = Normal
             /\ dialer_state.tag = "Clicked" /\ left = "Down" =>
                   /\ dialer_state'.tag = "Clicked"
                   /\ dialer_state'.elem.elem = dialer_state.elem.elem
                   /\ dialer_state.elem.elem = "ValueGlyph" =>
                         /\ dialer_state'.elem.idx = dialer_state.elem.idx
                         /\ dialer_state'.elem.y = last_call'.mouse.pos[2]
             /\ left = "Up" =>
                   dialer_state' = IF over = None THEN Normal
                            ELSE Highlighted(Unwrap(over))]_vars

\* A dialer clicked on a value glyph has been drawn with the button still
\* down and the cursor off the widget, at another height.
C40_Witness ==
    /\ IsGetNewState
    /\ last_call.is_over_elem = None
    /\ last_call.mouse.left = "Down"
    /\ last_call.prev.tag = "Clicked"
    /\ dialer_state.tag = "Clicked"
    /\ dialer_state.elem.elem = "ValueGlyph"
    /\ dialer_state.elem.y # last_call.prev.elem.y

====
